---- MODULE Spec2Model ----
(***************************************************************************)
(* killswitch: a reconciliation controller for switch ports.               *)
(*   src/db.py   the store (SQLite tables) and the desired-state resolver  *)
(*   src/app.py  the reconciliation job, the HTTP handlers, the startup    *)
(*                                                                         *)
(* Time.  A datetime is a count of clock ticks since a Monday 00:00 of the *)
(* configured zone; a minute has TicksPerMin ticks, so that the clock has  *)
(* instants strictly inside a minute, which strftime("%H:%M") truncates.   *)
(* The store keeps datetimes as isoformat() text and SQLite compares that  *)
(* text; the text is modelled by the tuple of its zero-padded fields       *)
(* <<date, hour, minute, fraction>> and compared field by field, left to   *)
(* right.  The UTC offset suffix of the text is constant in the model (no  *)
(* daylight-saving change inside the modelled days).                       *)
(* A value that may be None is a set with at most one element.             *)
(***************************************************************************)
EXTENDS Integers, Sequences, FiniteSets, TLC

VARIABLES
    now,                \* the wall clock read by db.get_local_now()
    devices,            \* table devices: rows [id, is_default]
    schedules,          \* table schedules
    temporary_access,   \* table temporary_access
    punishment_mode,    \* table punishment_mode
    sqlite_sequence,    \* AUTOINCREMENT counters, one per table
    port_states,        \* app.port_states: device id -> [enabled]
    switch_port,        \* the physical port of each switch
    started,            \* TRUE once __main__ has run the startup sync
    driver_calls,       \* the driver calls made by the last operation
    response,           \* what the last operation returned
    threads             \* request threads inside db.grant_temporary_access

store == <<devices, schedules, temporary_access, punishment_mode, sqlite_sequence>>
vars == <<now, devices, schedules, temporary_access, punishment_mode,
          sqlite_sequence, port_states, switch_port, started, driver_calls,
          response, threads>>

-----------------------------------------------------------------------------
(* Bounds of the model *)

TicksPerMin == 2        \* clock instants per minute
NumDevices == 2         \* registered switches
MaxSchedules == 2       \* schedule rows ever inserted
MaxTemporary == 2       \* temporary_access rows ever inserted
MaxPunishment == 2      \* punishment_mode rows ever inserted

LastDay == 7            \* the clock stops at the end of this day
NumWorkers == 2         \* request threads
MaxAhead == 15          \* minutes a grant may be extended ahead of the clock
MaxDevices == 3         \* devices rows ever inserted

(* Constants of the program *)

DaysPerWeek == 7        \* (current_day + day_offset) % 7
ScanDays == 8           \* for day_offset in range(8)
NoDevice == 0           \* get_default_device_id() returning None

TicksPerHour == 60 * TicksPerMin
TicksPerDay == 24 * TicksPerHour
DeviceIds == 1..NumDevices

\* duration_minutes of the requests (0: rejected by the handler)
Durations == {0, 5, 10}

-----------------------------------------------------------------------------
(* datetime: weekday(), strftime, isoformat, fromisoformat, timedelta *)

\* a datetime built from a date, an hour and a minute (seconds zero)
datetime(date, hour, minute) ==
    date * TicksPerDay + hour * TicksPerHour + minute * TicksPerMin

date_of(t) == t \div TicksPerDay

\* now.weekday(): 0 = Monday .. 6 = Sunday
weekday(t) == date_of(t) % DaysPerWeek

\* now.strftime("%H:%M"): the zero-padded text "HH:MM" as <<HH, MM>>
strftime_HM(t) ==
    << (t % TicksPerDay) \div TicksPerHour,
       ((t % TicksPerDay) % TicksPerHour) \div TicksPerMin >>

\* comparison of two "HH:MM" texts, character fields left to right
StrLE(a, b) == a[1] < b[1] \/ (a[1] = b[1] /\ a[2] <= b[2])

StrLT(a, b) == a[1] < b[1] \/ (a[1] = b[1] /\ a[2] < b[2])

\* dt.isoformat(): <<date, hour, minute, fraction of the minute>>
isoformat(t) ==
    << date_of(t),
       (t % TicksPerDay) \div TicksPerHour,
       ((t % TicksPerDay) % TicksPerHour) \div TicksPerMin,
       t % TicksPerMin >>

\* datetime.fromisoformat(text)
fromisoformat(s) == datetime(s[1], s[2], s[3]) + s[4]

\* SQLite's text comparison a > b of two isoformat texts
IsoGT(a, b) ==
    \/ a[1] > b[1]
    \/ a[1] = b[1] /\ a[2] > b[2]
    \/ a[1] = b[1] /\ a[2] = b[2] /\ a[3] > b[3]
    \/ a[1] = b[1] /\ a[2] = b[2] /\ a[3] = b[3] /\ a[4] > b[4]

\* dt + timedelta(minutes=m)
plus_minutes(t, m) == t + m * TicksPerMin

-----------------------------------------------------------------------------
(* db.py: queries *)

\* SELECT id FROM devices WHERE is_default = 1 LIMIT 1 (NoDevice: None)
get_default_device_id(devs) ==
    IF \E d \in devs : d.is_default
    THEN (CHOOSE d \in devs : d.is_default).id
    ELSE NoDevice

\* SELECT * FROM devices WHERE id = ?  (a set: empty for None)
get_device(devs, device_id) == {d \in devs : d.id = device_id}

\* a get_schedules that forgets WHERE device_id = ?
get_schedules_AllDevices(scheds, device_id) == {s \in scheds : s.enabled}

\* SELECT * FROM schedules WHERE device_id = ? AND enabled = 1
get_schedules(scheds, device_id) ==
    {s \in scheds : s.device_id = device_id /\ s.enabled}

\* a query that trusts the active flag and forgets AND expires_at > ?
ActiveRows_FlagOnly(rows, device_id, t) ==
    {r \in rows : r.device_id = device_id /\ r.active}

\* WHERE device_id = ? AND active = 1 AND expires_at > ?
ActiveRows(rows, device_id, t) ==
    {r \in rows : r.device_id = device_id /\ r.active
                  /\ IsoGT(r.expires_at, isoformat(t))}

\* ... ORDER BY expires_at DESC LIMIT 1: the rows SQLite may return
\* (several only when two rows tie on expires_at)
FirstByExpiry(rows) ==
    {r \in rows : \A q \in rows : ~IsoGT(q.expires_at, r.expires_at)}

\* what fetchone() returns of these rows: one of them, or None
Limit1(rows) == IF rows = {} THEN {{}} ELSE {{r} : r \in rows}

\* a query for the last row of the device, active or not, expired or not
get_active_temporary_access_AnyRow(temps, device_id, t) ==
    FirstByExpiry({r \in temps : r.device_id = device_id})

get_active_temporary_access(temps, device_id, t) ==
    FirstByExpiry(ActiveRows(temps, device_id, t))

get_active_punishment_mode(puns, device_id, t) ==
    FirstByExpiry(ActiveRows(puns, device_id, t))

\* a cleanup that forgets AND expires_at <= ?
cleanup_expired_AllActive(rows, t) ==
    {[r EXCEPT !.active = FALSE] : r \in rows}

\* UPDATE ... SET active = 0 WHERE active = 1 AND expires_at <= ?
cleanup_expired(rows, t) ==
    {IF r.active /\ ~IsoGT(r.expires_at, isoformat(t))
     THEN [r EXCEPT !.active = FALSE] ELSE r : r \in rows}

cleanup_expired_temporary_access(temps, t) == cleanup_expired(temps, t)

cleanup_expired_punishment_mode(puns, t) == cleanup_expired(puns, t)

\* a schedule check that excludes the minute end_time
InWindow_EndExclusive(s, t) ==
    /\ s.day_of_week = weekday(t)
    /\ StrLE(s.start_time, strftime_HM(t))
    /\ StrLT(strftime_HM(t), s.end_time)

\* a schedule check that excludes the minute start_time
InWindow_StartExclusive(s, t) ==
    /\ s.day_of_week = weekday(t)
    /\ StrLT(s.start_time, strftime_HM(t))
    /\ StrLE(strftime_HM(t), s.end_time)

\* the schedule check of should_port_be_enabled
InWindow(s, t) ==
    /\ s.day_of_week = weekday(t)
    /\ StrLE(s.start_time, strftime_HM(t))
    /\ StrLE(strftime_HM(t), s.end_time)

\* a resolver that looks at temporary access before punishment mode
should_port_be_enabled_TemporaryFirst(device_id, t, scheds, temps, puns) ==
    IF FirstByExpiry(ActiveRows(temps, device_id, t)) # {} THEN TRUE
    ELSE IF FirstByExpiry(ActiveRows(puns, device_id, t)) # {} THEN FALSE
    ELSE IF {s \in scheds : s.device_id = device_id /\ s.enabled} = {} THEN TRUE
    ELSE \E s \in scheds : s.device_id = device_id /\ s.enabled
                            /\ s.day_of_week = weekday(t)
                            /\ StrLE(s.start_time, strftime_HM(t))
                            /\ StrLE(strftime_HM(t), s.end_time)

\* a resolver without the temporary access override
should_port_be_enabled_NoTemporary(device_id, t, scheds, temps, puns) ==
    IF FirstByExpiry(ActiveRows(puns, device_id, t)) # {} THEN FALSE
    ELSE IF {s \in scheds : s.device_id = device_id /\ s.enabled} = {} THEN TRUE
    ELSE \E s \in scheds : s.device_id = device_id /\ s.enabled
                            /\ s.day_of_week = weekday(t)
                            /\ StrLE(s.start_time, strftime_HM(t))
                            /\ StrLE(strftime_HM(t), s.end_time)

should_port_be_enabled(device_id, t, scheds, temps, puns) ==
    IF get_active_punishment_mode(puns, device_id, t) # {} THEN FALSE
    ELSE IF get_active_temporary_access(temps, device_id, t) # {} THEN TRUE
    ELSE IF get_schedules(scheds, device_id) = {} THEN TRUE
    ELSE \E s \in get_schedules(scheds, device_id) : InWindow(s, t)

\* a loop that does not skip today's schedules that have started
DaySchedules_KeepStarted(scheds, t, day_offset) ==
    {s \in scheds : s.day_of_week = (weekday(t) + day_offset) % DaysPerWeek}

\* the schedules of one iteration of the day_offset loop that are not skipped
DaySchedules(scheds, t, day_offset) ==
    {s \in scheds :
        /\ s.day_of_week = (weekday(t) + day_offset) % DaysPerWeek
        /\ ~(day_offset = 0 /\ StrLE(s.start_time, strftime_HM(t)))}

\* a loop that takes the last element of the sorted list
FirstByStart_Latest(scheds) ==
    CHOOSE s \in scheds : \A q \in scheds : StrLE(q.start_time, s.start_time)

\* the first element of sorted(day_schedules, key=start_time) not skipped
FirstByStart(scheds) ==
    CHOOSE s \in scheds : \A q \in scheds : StrLE(s.start_time, q.start_time)

RECURSIVE ScanFrom(_, _, _)
ScanFrom(scheds, t, day_offset) ==
    IF day_offset >= ScanDays THEN {}
    ELSE IF DaySchedules(scheds, t, day_offset) # {}
    THEN LET s == FirstByStart(DaySchedules(scheds, t, day_offset))
         IN {datetime(date_of(t) + day_offset, s.start_time[1], s.start_time[2])}
    ELSE ScanFrom(scheds, t, day_offset + 1)

\* a set: empty for None
get_next_schedule_start(device_id, t, scheds) ==
    IF get_schedules(scheds, device_id) = {} THEN {}
    ELSE ScanFrom(get_schedules(scheds, device_id), t, 0)

-----------------------------------------------------------------------------
(* db.py: writes.  Each returns the new table; the caller advances the     *)
(* table's AUTOINCREMENT counter when a row was inserted.                  *)

\* INSERT INTO devices, after UPDATE devices SET is_default = 0 when the
\* new device is the default one (alias, ip, credentials: not modelled)
add_device(devs, seq, is_default) ==
    (IF is_default THEN {[d EXCEPT !.is_default = FALSE] : d \in devs} ELSE devs)
    \cup {[id |-> seq + 1, is_default |-> is_default]}

\* UPDATE devices SET ... is_default = ? WHERE id = ?, after
\* UPDATE devices SET is_default = 0 WHERE id != ? when is_default is set
update_device(devs, device_id, is_default) ==
    {IF d.id = device_id THEN [d EXCEPT !.is_default = is_default]
     ELSE IF is_default THEN [d EXCEPT !.is_default = FALSE]
     ELSE d : d \in devs}

\* a delete_device that promotes no other device
delete_device_NoPromotion(devs, device_id, new_default) ==
    {d \in devs : d.id # device_id}

\* delete_device: new_default is what SELECT id FROM devices WHERE id != ?
\* LIMIT 1 returned (a set: empty for None), used when the row is the default
delete_device(devs, device_id, new_default) ==
    LET promote == \E d \in devs : d.id = device_id /\ d.is_default
    IN {IF promote /\ d.id \in new_default THEN [d EXCEPT !.is_default = TRUE] ELSE d :
           d \in {x \in devs : x.id # device_id}}

\* the rows of a child table after DELETE FROM devices WHERE id = ?: the
\* tables declare ON DELETE CASCADE, which SQLite applies only with foreign
\* key enforcement on; get_db never issues PRAGMA foreign_keys = ON, so
\* enforcement is the library's compile-time default (off unless built with
\* SQLITE_DEFAULT_FOREIGN_KEYS=1)
on_delete_cascade(rows, device_id, foreign_keys) ==
    IF foreign_keys THEN {r \in rows : r.device_id # device_id} ELSE rows

\* a plain INSERT INTO schedules on a table without the UNIQUE constraint
add_schedule_Insert(scheds, seq, day_of_week, start_time, end_time, device_id) ==
    scheds \cup {[id |-> seq + 1, device_id |-> device_id, day_of_week |-> day_of_week,
                  start_time |-> start_time, end_time |-> end_time, enabled |-> TRUE]}

\* INSERT OR REPLACE INTO schedules ...: UNIQUE(device_id, day_of_week,
\* start_time, end_time) makes REPLACE delete the row it conflicts with
add_schedule(scheds, seq, day_of_week, start_time, end_time, device_id) ==
    {s \in scheds : ~(/\ s.device_id = device_id
                      /\ s.day_of_week = day_of_week
                      /\ s.start_time = start_time
                      /\ s.end_time = end_time)}
    \cup {[id |-> seq + 1, device_id |-> device_id, day_of_week |-> day_of_week,
           start_time |-> start_time, end_time |-> end_time, enabled |-> TRUE]}

\* DELETE FROM schedules WHERE id = ?
delete_schedule(scheds, schedule_id) == {s \in scheds : s.id # schedule_id}

\* an extension that counts the duration from the clock
extend_temporary_access_FromNow(temps, existing, duration_minutes) ==
    {IF r.id = existing.id
     THEN [r EXCEPT !.expires_at = isoformat(plus_minutes(now, duration_minutes))]
     ELSE r : r \in temps}

\* UPDATE temporary_access SET expires_at = ? WHERE id = ?
extend_temporary_access(temps, existing, duration_minutes) ==
    {IF r.id = existing.id
     THEN [r EXCEPT !.expires_at =
              isoformat(plus_minutes(fromisoformat(existing.expires_at),
                                     duration_minutes))]
     ELSE r : r \in temps}

\* INSERT INTO temporary_access (device_id, granted_at, expires_at, active)
insert_temporary_access(temps, seq, device_id, t, duration_minutes) ==
    temps \cup {[id |-> seq + 1, device_id |-> device_id,
                 granted_at |-> isoformat(t),
                 expires_at |-> isoformat(plus_minutes(t, duration_minutes)),
                 active |-> TRUE]}

\* a revocation that spares the rows that have expired
revoke_UnexpiredOnly(rows, device_id) ==
    {IF r.device_id = device_id /\ r.active /\ IsoGT(r.expires_at, isoformat(now))
     THEN [r EXCEPT !.active = FALSE] ELSE r : r \in rows}

\* UPDATE ... SET active = 0 WHERE device_id = ? AND active = 1
revoke(rows, device_id) ==
    {IF r.device_id = device_id /\ r.active
     THEN [r EXCEPT !.active = FALSE] ELSE r : r \in rows}

revoke_temporary_access(temps, device_id) == revoke(temps, device_id)

revoke_punishment_mode(puns, device_id) == revoke(puns, device_id)

\* an activation that lasts a fixed hour
insert_punishment_mode_FixedDuration(puns, seq, device_id, t, next_start) ==
    puns \cup {[id |-> seq + 1, device_id |-> device_id,
                activated_at |-> isoformat(t),
                expires_at |-> isoformat(plus_minutes(t, 60)),
                active |-> TRUE]}

\* INSERT INTO punishment_mode (device_id, activated_at, expires_at, active)
insert_punishment_mode(puns, seq, device_id, t, next_start) ==
    puns \cup {[id |-> seq + 1, device_id |-> device_id,
                activated_at |-> isoformat(t),
                expires_at |-> isoformat(next_start),
                active |-> TRUE]}

-----------------------------------------------------------------------------
(* What an operation returns *)

NoResponse ==
    [op |-> "none", device_id |-> NoDevice, code |-> 0,
     enabled |-> FALSE, rows |-> {}, at |-> {}, extended |-> FALSE,
     minutes |-> 0]

\* minutes: the duration_minutes of the request, 0 when it has none
Reply(op, device_id, code, enabled, rows, at, extended, minutes) ==
    [op |-> op, device_id |-> device_id, code |-> code,
     enabled |-> enabled, rows |-> rows, at |-> at, extended |-> extended,
     minutes |-> minutes]

IdleThreads == [w \in {} |-> 0]

-----------------------------------------------------------------------------
(* The stores the resolver is applied to *)

\* (day_of_week, start_time, end_time) of the schedules an operator may add;
\* the second one has start_time > end_time
SchedulePool ==
    { <<0, <<9, 0>>, <<17, 0>>>>,
      <<0, <<10, 0>>, <<9, 30>>>>,
      <<1, <<9, 0>>, <<17, 0>>>> }

\* the table after add_schedule of every element of P, an empty table before
RECURSIVE SchedulesOf(_)
SchedulesOf(P) ==
    IF P = {} THEN {}
    ELSE LET x == CHOOSE x \in P : TRUE
             rest == SchedulesOf(P \ {x})
         IN add_schedule(rest, Cardinality(rest), x[2][1], x[2][2], x[2][3], x[1])

ScheduleTables ==
    {SchedulesOf(P) : P \in {Q \in SUBSET (DeviceIds \X SchedulePool) :
                                Cardinality(Q) <= MaxSchedules}}

\* the instants at which the resolver is asked: the first and the last tick
\* of a minute, for minutes around the windows of SchedulePool
InstantsAt(days, times) ==
    {datetime(d, hm[1], hm[2]) + f :
        d \in days, hm \in times, f \in {0, TicksPerMin - 1}}

ResolverNows ==
    InstantsAt({0}, {<<8, 59>>, <<9, 0>>, <<9, 30>>, <<17, 0>>, <<17, 1>>})

NextStartNows ==
    InstantsAt({0, 1, 6}, {<<8, 59>>, <<9, 0>>, <<9, 30>>, <<10, 0>>, <<23, 0>>})

\* a temporary_access table of the default device left by one grant of 5
\* minutes: expiring at t or one tick later, active or revoked / cleaned up
TemporaryTables(t) ==
    {{}} \cup
    {{[id |-> 1, device_id |-> 1,
       granted_at |-> isoformat(plus_minutes(e, -5)),
       expires_at |-> isoformat(e), active |-> a]} :
        e \in {t, t + 1}, a \in BOOLEAN}

\* a punishment_mode table of the default device left by one activation a
\* day earlier: expiring at the start of this minute or of the next one
PunishmentTables(t) ==
    {{}} \cup
    {{[id |-> 1, device_id |-> 1,
       activated_at |-> isoformat(e - TicksPerDay),
       expires_at |-> isoformat(e), active |-> a]} :
        e \in {t - (t % TicksPerMin), t - (t % TicksPerMin) + TicksPerMin},
        a \in BOOLEAN}

RegisteredDevices == {[id |-> d, is_default |-> (d = 1)] : d \in DeviceIds}

InitResolver ==
    /\ now \in ResolverNows
    /\ devices = RegisteredDevices
    /\ schedules \in ScheduleTables
    /\ temporary_access \in TemporaryTables(now)
    /\ punishment_mode \in PunishmentTables(now)
    /\ sqlite_sequence = [devices |-> Cardinality(devices), schedules |-> Cardinality(schedules),
                          temporary_access |-> Cardinality(temporary_access),
                          punishment_mode |-> Cardinality(punishment_mode)]
    /\ port_states = [d \in {} |-> FALSE]
    /\ switch_port = [d \in DeviceIds |-> FALSE]
    /\ started = TRUE
    /\ driver_calls = {}
    /\ response = NoResponse
    /\ threads = IdleThreads

\* db.should_port_be_enabled(device_id)
ShouldPortBeEnabled(device_id) ==
    /\ response' = Reply("should_port_be_enabled", device_id, 200,
                         should_port_be_enabled(device_id, now, schedules,
                                                temporary_access, punishment_mode),
                         {}, {}, FALSE, 0)
    /\ UNCHANGED <<now, store, port_states, switch_port, started, driver_calls, threads>>

\* db.get_active_temporary_access(device_id)
GetActiveTemporaryAccess(device_id) ==
    /\ \E rows \in Limit1(get_active_temporary_access(temporary_access, device_id, now)) :
          response' = Reply("get_active_temporary_access", device_id, 200,
                            FALSE, rows, {}, FALSE, 0)
    /\ UNCHANGED <<now, store, port_states, switch_port, started, driver_calls, threads>>

\* db.get_active_punishment_mode(device_id)
GetActivePunishmentMode(device_id) ==
    /\ \E rows \in Limit1(get_active_punishment_mode(punishment_mode, device_id, now)) :
          response' = Reply("get_active_punishment_mode", device_id, 200,
                            FALSE, rows, {}, FALSE, 0)
    /\ UNCHANGED <<now, store, port_states, switch_port, started, driver_calls, threads>>

\* db.cleanup_expired_temporary_access(); db.cleanup_expired_punishment_mode()
CleanupExpired ==
    /\ temporary_access' = cleanup_expired_temporary_access(temporary_access, now)
    /\ punishment_mode' = cleanup_expired_punishment_mode(punishment_mode, now)
    /\ response' = Reply("cleanup_expired", NoDevice, 200, FALSE, {}, {}, FALSE, 0)
    /\ UNCHANGED <<now, devices, schedules, sqlite_sequence, port_states,
                   switch_port, started, driver_calls, threads>>

\* db.get_next_schedule_start(device_id)
GetNextScheduleStart(device_id) ==
    /\ response' = Reply("get_next_schedule_start", device_id, 200, FALSE, {},
                         get_next_schedule_start(device_id, now, schedules), FALSE, 0)
    /\ UNCHANGED <<now, store, port_states, switch_port, started, driver_calls, threads>>

NextResolver ==
    \/ \E d \in DeviceIds : ShouldPortBeEnabled(d)
    \/ \E d \in DeviceIds : GetActiveTemporaryAccess(d)
    \/ \E d \in DeviceIds : GetActivePunishmentMode(d)
    \/ CleanupExpired

SpecResolver == InitResolver /\ [][NextResolver]_vars

InitNextStart ==
    /\ now \in NextStartNows
    /\ devices = RegisteredDevices
    /\ schedules \in ScheduleTables
    /\ temporary_access = {}
    /\ punishment_mode = {}
    /\ sqlite_sequence = [devices |-> Cardinality(devices), schedules |-> Cardinality(schedules),
                          temporary_access |-> 0, punishment_mode |-> 0]
    /\ port_states = [d \in {} |-> FALSE]
    /\ switch_port = [d \in DeviceIds |-> FALSE]
    /\ started = TRUE
    /\ driver_calls = {}
    /\ response = NoResponse
    /\ threads = IdleThreads

NextNextStart == \E d \in DeviceIds : GetNextScheduleStart(d)

SpecNextStart == InitNextStart /\ [][NextNextStart]_vars

-----------------------------------------------------------------------------
(* app.py: the reconciliation job and the handlers, one request at a time *)

\* what login_to_switch and control_port do for one device in one run:
\*   ok          login returns a session, control_port returns True
\*   auth_error  login_to_switch raises
\*   set_failed  control_port returns False or raises
DriverOutcomes == {"ok", "auth_error", "set_failed"}

\* get_device_id_from_request(): req is the device_id of the request,
\* NoDevice when the request names none
get_device_id_from_request(req) ==
    IF req # NoDevice THEN req ELSE get_default_device_id(devices)

\* the devices one run of sync_port_with_schedule(device_id) loops over
SyncDevices(device_id) ==
    IF device_id = NoDevice THEN {d.id : d \in devices}
    ELSE {d.id : d \in get_device(devices, device_id)}

\* port_states[dev_id]["enabled"] after "if dev_id not in port_states"
CurrentState(dev_id) ==
    IF dev_id \in DOMAIN port_states THEN port_states[dev_id] ELSE FALSE

\* the driver calls of one device: login, and control_port after a session
CallsFor(dev_id, enable, outcome) ==
    {[device_id |-> dev_id, call |-> "login", enable |-> FALSE,
      ok |-> (outcome # "auth_error")]}
    \cup (IF outcome = "auth_error" THEN {}
          ELSE {[device_id |-> dev_id, call |-> "control_port",
                 enable |-> enable, ok |-> (outcome = "ok")]})

\* a run without "only update if state needs to change": every device of the
\* run gets its commands
sync_port_with_schedule_Forced(device_id, temps, puns) ==
    LET temps1 == cleanup_expired_temporary_access(temps, now)
        puns1 == cleanup_expired_punishment_mode(puns, now)
        devs == SyncDevices(device_id)
        should(d) == should_port_be_enabled(d, now, schedules, temps1, puns1)
    IN \E out \in [devs -> DriverOutcomes] :
       /\ temporary_access' = temps1
       /\ punishment_mode' = puns1
       /\ port_states' =
            [d \in DOMAIN port_states \cup devs |->
                IF d \in devs /\ out[d] = "ok" THEN should(d) ELSE CurrentState(d)]
       /\ switch_port' =
            [d \in DOMAIN switch_port |->
                IF d \in devs /\ out[d] = "ok" THEN should(d) ELSE switch_port[d]]
       /\ driver_calls' = UNION {CallsFor(d, should(d), out[d]) : d \in devs}

\* a run that records the state it asked for whatever the driver answered
sync_port_with_schedule_Optimistic(device_id, temps, puns) ==
    LET temps1 == cleanup_expired_temporary_access(temps, now)
        puns1 == cleanup_expired_punishment_mode(puns, now)
        devs == SyncDevices(device_id)
        should(d) == should_port_be_enabled(d, now, schedules, temps1, puns1)
        change(d) == d \in devs /\ CurrentState(d) # should(d)
    IN \E out \in [{d \in devs : change(d)} -> DriverOutcomes] :
       /\ temporary_access' = temps1
       /\ punishment_mode' = puns1
       /\ port_states' =
            [d \in DOMAIN port_states \cup devs |->
                IF change(d) THEN should(d) ELSE CurrentState(d)]
       /\ switch_port' =
            [d \in DOMAIN switch_port |->
                IF change(d) /\ out[d] = "ok" THEN should(d) ELSE switch_port[d]]
       /\ driver_calls' =
            UNION {CallsFor(d, should(d), out[d]) : d \in {x \in devs : change(x)}}

\* a run whose loop ends at the first device whose driver fails
sync_port_with_schedule_AbortOnFailure(device_id, temps, puns) ==
    LET temps1 == cleanup_expired_temporary_access(temps, now)
        puns1 == cleanup_expired_punishment_mode(puns, now)
        devs == SyncDevices(device_id)
        should(d) == should_port_be_enabled(d, now, schedules, temps1, puns1)
        change(d) == d \in devs /\ CurrentState(d) # should(d)
    IN \E out \in [{d \in devs : change(d)} -> DriverOutcomes] :
       LET reached(d) == \A e \in devs : (e < d /\ change(e)) => out[e] = "ok"
       IN /\ temporary_access' = temps1
          /\ punishment_mode' = puns1
          /\ port_states' =
               [d \in DOMAIN port_states \cup devs |->
                   IF change(d) /\ reached(d) /\ out[d] = "ok"
                   THEN should(d) ELSE CurrentState(d)]
          /\ switch_port' =
               [d \in DOMAIN switch_port |->
                   IF change(d) /\ reached(d) /\ out[d] = "ok"
                   THEN should(d) ELSE switch_port[d]]
          /\ driver_calls' =
               UNION {CallsFor(d, should(d), out[d]) :
                         d \in {x \in devs : change(x) /\ reached(x)}}

\* sync_port_with_schedule(device_id) on the tables temps and puns as the
\* caller left them; out is the driver's outcome for each device the run
\* finds in need of a change
sync_port_with_schedule(device_id, temps, puns) ==
    LET temps1 == cleanup_expired_temporary_access(temps, now)
        puns1 == cleanup_expired_punishment_mode(puns, now)
        devs == SyncDevices(device_id)
        should(d) == should_port_be_enabled(d, now, schedules, temps1, puns1)
        change(d) == d \in devs /\ CurrentState(d) # should(d)
    IN \E out \in [{d \in devs : change(d)} -> DriverOutcomes] :
       /\ temporary_access' = temps1
       /\ punishment_mode' = puns1
       /\ port_states' =
            [d \in DOMAIN port_states \cup devs |->
                IF change(d) /\ out[d] = "ok" THEN should(d) ELSE CurrentState(d)]
       /\ switch_port' =
            [d \in DOMAIN switch_port |->
                IF change(d) /\ out[d] = "ok" THEN should(d) ELSE switch_port[d]]
       /\ driver_calls' =
            UNION {CallsFor(d, should(d), out[d]) : d \in {x \in devs : change(x)}}

\* a startup that commands only the devices whose desired state is not the
\* state it knows
StartupSync_OnlyIfDifferent ==
    /\ ~started
    /\ started' = TRUE
    /\ LET devs == {d.id : d \in devices}
           should(d) == should_port_be_enabled(d, now, schedules,
                            temporary_access, punishment_mode)
           change(d) == d \in devs /\ CurrentState(d) # should(d)
       IN \E out \in [{d \in devs : change(d)} -> DriverOutcomes] :
            /\ port_states' =
                 [d \in DOMAIN port_states \cup devs |->
                     IF change(d) /\ out[d] = "ok" THEN should(d) ELSE CurrentState(d)]
            /\ switch_port' =
                 [d \in DOMAIN switch_port |->
                     IF change(d) /\ out[d] = "ok" THEN should(d) ELSE switch_port[d]]
            /\ driver_calls' =
                 UNION {CallsFor(d, should(d), out[d]) : d \in {x \in devs : change(x)}}
    /\ response' = Reply("startup", NoDevice, 0, FALSE, {}, {}, FALSE, 0)
    /\ UNCHANGED <<now, store, threads>>

\* __main__: the forced sync of every device, before the job is scheduled
\* and before the server accepts requests
StartupSync ==
    /\ ~started
    /\ started' = TRUE
    /\ \E out \in [{d.id : d \in devices} -> DriverOutcomes] :
         LET devs == {d.id : d \in devices}
             should(d) == should_port_be_enabled(d, now, schedules,
                              temporary_access, punishment_mode)
         IN /\ port_states' =
                 [d \in DOMAIN port_states \cup devs |->
                     IF d \in devs
                     THEN (IF out[d] = "ok" THEN should(d) ELSE FALSE)
                     ELSE port_states[d]]
            /\ switch_port' =
                 [d \in DOMAIN switch_port |->
                     IF d \in devs /\ out[d] = "ok" THEN should(d)
                     ELSE switch_port[d]]
            /\ driver_calls' = UNION {CallsFor(d, should(d), out[d]) : d \in devs}
    /\ response' = Reply("startup", NoDevice, 0, FALSE, {}, {}, FALSE, 0)
    /\ UNCHANGED <<now, store, threads>>

\* the scheduler's job: sync_port_with_schedule() for all devices
SyncTick ==
    /\ started
    /\ sync_port_with_schedule(NoDevice, temporary_access, punishment_mode)
    /\ response' = Reply("sync_port_with_schedule", NoDevice, 0, FALSE, {}, {}, FALSE, 0)
    /\ UNCHANGED <<now, devices, schedules, sqlite_sequence, started, threads>>

\* GET /api/port/state: the entry of the device, made on first reference
GetPortState(req) ==
    /\ started
    /\ LET device_id == get_device_id_from_request(req)
       IN /\ port_states' = [d \in DOMAIN port_states \cup {device_id} |-> CurrentState(d)]
          /\ response' = Reply("get_port_state", device_id, 200,
                               CurrentState(device_id), {}, {}, FALSE, 0)
    /\ driver_calls' = {}
    /\ UNCHANGED <<now, store, switch_port, started, threads>>

\* a port handler that records the state it commanded whatever the driver
\* answered
CommandPort_Optimistic(op, device_id, new_state) ==
    \E out \in DriverOutcomes :
       /\ port_states' =
            [d \in DOMAIN port_states \cup {device_id} |->
                IF d = device_id THEN new_state ELSE CurrentState(d)]
       /\ switch_port' =
            [d \in DOMAIN switch_port |->
                IF d = device_id /\ out = "ok" THEN new_state ELSE switch_port[d]]
       /\ driver_calls' = CallsFor(device_id, new_state, out)
       /\ response' = Reply(op, device_id, IF out = "ok" THEN 200 ELSE 500,
                            out = "ok" /\ new_state, {}, {}, FALSE, 0)

\* the port handlers' "make the entry, log in, command, record on success"
\* for a registered device and the state to command
CommandPort(op, device_id, new_state) ==
    \E out \in DriverOutcomes :
       /\ port_states' =
            [d \in DOMAIN port_states \cup {device_id} |->
                IF d = device_id /\ out = "ok" THEN new_state ELSE CurrentState(d)]
       /\ switch_port' =
            [d \in DOMAIN switch_port |->
                IF d = device_id /\ out = "ok" THEN new_state ELSE switch_port[d]]
       /\ driver_calls' = CallsFor(device_id, new_state, out)
       /\ response' = Reply(op, device_id, IF out = "ok" THEN 200 ELSE 500,
                            out = "ok" /\ new_state, {}, {}, FALSE, 0)

\* the port handlers' answer for a device that is not registered
DeviceNotFound(op, device_id) ==
    /\ response' = Reply(op, device_id, 404, FALSE, {}, {}, FALSE, 0)
    /\ driver_calls' = {}
    /\ UNCHANGED <<port_states, switch_port>>

\* POST /api/port/toggle
TogglePort(req) ==
    /\ started
    /\ LET device_id == get_device_id_from_request(req)
       IN IF get_device(devices, device_id) = {}
          THEN DeviceNotFound("toggle_port", device_id)
          ELSE CommandPort("toggle_port", device_id, ~CurrentState(device_id))
    /\ UNCHANGED <<now, store, started, threads>>

\* POST /api/port/set with {"enabled": desired_state}
SetPortState(req, desired_state) ==
    /\ started
    /\ LET device_id == get_device_id_from_request(req)
       IN IF get_device(devices, device_id) = {}
          THEN DeviceNotFound("set_port_state", device_id)
          ELSE CommandPort("set_port_state", device_id, desired_state)
    /\ UNCHANGED <<now, store, started, threads>>

\* POST /api/schedules
AddSchedule(req, day_of_week, start_time, end_time) ==
    /\ started
    /\ LET device_id == get_device_id_from_request(req)
       IN IF device_id = NoDevice
          THEN \* NOT NULL constraint failed: schedules.device_id
               /\ response' = Reply("add_schedule", device_id, 500, FALSE, {}, {}, FALSE, 0)
               /\ UNCHANGED <<schedules, sqlite_sequence>>
          ELSE /\ sqlite_sequence.schedules < MaxSchedules
               /\ schedules' = add_schedule(schedules, sqlite_sequence.schedules,
                                   day_of_week, start_time, end_time, device_id)
               /\ sqlite_sequence' = [sqlite_sequence EXCEPT !.schedules = @ + 1]
               /\ response' = Reply("add_schedule", device_id, 200, FALSE,
                                    {[id |-> sqlite_sequence.schedules + 1]}, {}, FALSE, 0)
    /\ driver_calls' = {}
    /\ UNCHANGED <<now, devices, temporary_access, punishment_mode,
                   port_states, switch_port, started, threads>>

\* a handler that reconciles every device after the delete
DeleteSchedule_Sync(schedule_id) ==
    /\ started
    /\ schedules' = delete_schedule(schedules, schedule_id)
    /\ response' = Reply("delete_schedule", NoDevice, 200, FALSE,
                         {[id |-> schedule_id]}, {}, FALSE, 0)
    /\ LET devs == {d.id : d \in devices}
           should(d) == should_port_be_enabled(d, now, schedules',
                            temporary_access, punishment_mode)
       IN /\ port_states' = [d \in DOMAIN port_states \cup devs |->
                                IF d \in devs THEN should(d) ELSE CurrentState(d)]
          /\ switch_port' = [d \in DOMAIN switch_port |->
                                IF d \in devs THEN should(d) ELSE switch_port[d]]
          /\ driver_calls' = UNION {CallsFor(d, should(d), "ok") :
                                       d \in {x \in devs : CurrentState(x) # should(x)}}
    /\ UNCHANGED <<now, devices, temporary_access, punishment_mode, sqlite_sequence,
                   started, threads>>

\* DELETE /api/schedules/<schedule_id>
DeleteSchedule(schedule_id) ==
    /\ started
    /\ schedules' = delete_schedule(schedules, schedule_id)
    /\ response' = Reply("delete_schedule", NoDevice, 200, FALSE,
                         {[id |-> schedule_id]}, {}, FALSE, 0)
    /\ driver_calls' = {}
    /\ UNCHANGED <<now, devices, temporary_access, punishment_mode, sqlite_sequence,
                   port_states, switch_port, started, threads>>

\* POST /api/temporary-access
GrantTemporaryAccess(req, duration_minutes) ==
    /\ started
    /\ LET device_id == get_device_id_from_request(req)
       IN IF duration_minutes <= 0
          THEN /\ response' = Reply("grant_temporary_access", device_id, 400,
                                    FALSE, {}, {}, FALSE, duration_minutes)
               /\ driver_calls' = {}
               /\ UNCHANGED <<temporary_access, punishment_mode, sqlite_sequence,
                              port_states, switch_port>>
          ELSE IF get_active_temporary_access(temporary_access, device_id, now) # {}
          THEN \E existing \in get_active_temporary_access(temporary_access, device_id, now) :
                 LET temps == extend_temporary_access(temporary_access, existing,
                                                      duration_minutes)
                     row == CHOOSE r \in temps : r.id = existing.id
                 IN /\ fromisoformat(row.expires_at) <= plus_minutes(now, MaxAhead)
                    /\ sync_port_with_schedule(device_id, temps, punishment_mode)
                    /\ response' = Reply("grant_temporary_access", device_id, 200, FALSE,
                                         {[id |-> row.id, granted_at |-> row.granted_at,
                                           expires_at |-> row.expires_at]}, {}, TRUE, duration_minutes)
                    /\ UNCHANGED sqlite_sequence
          ELSE IF device_id = NoDevice
          THEN \* NOT NULL constraint failed: temporary_access.device_id
               /\ response' = Reply("grant_temporary_access", device_id, 500,
                                    FALSE, {}, {}, FALSE, duration_minutes)
               /\ driver_calls' = {}
               /\ UNCHANGED <<temporary_access, punishment_mode, sqlite_sequence,
                              port_states, switch_port>>
          ELSE LET temps == insert_temporary_access(temporary_access,
                                sqlite_sequence.temporary_access, device_id, now,
                                duration_minutes)
               IN /\ sqlite_sequence.temporary_access < MaxTemporary
                  /\ sync_port_with_schedule(device_id, temps, punishment_mode)
                  /\ sqlite_sequence' = [sqlite_sequence EXCEPT !.temporary_access = @ + 1]
                  /\ response' = Reply("grant_temporary_access", device_id, 200, FALSE,
                                       {[id |-> sqlite_sequence.temporary_access + 1,
                                         granted_at |-> isoformat(now),
                                         expires_at |-> isoformat(plus_minutes(now, duration_minutes))]},
                                       {}, FALSE, duration_minutes)
    /\ UNCHANGED <<now, devices, schedules, started, threads>>

\* a handler that leaves the reconciliation to the next tick
RevokeTemporaryAccess_NoSync(req) ==
    /\ started
    /\ LET device_id == get_device_id_from_request(req)
       IN /\ temporary_access' = revoke_temporary_access(temporary_access, device_id)
          /\ response' = Reply("revoke_temporary_access", device_id, 200,
                               FALSE, {}, {}, FALSE, 0)
    /\ driver_calls' = {}
    /\ UNCHANGED <<now, devices, schedules, punishment_mode, sqlite_sequence,
                   port_states, switch_port, started, threads>>

\* DELETE /api/temporary-access
RevokeTemporaryAccess(req) ==
    /\ started
    /\ LET device_id == get_device_id_from_request(req)
       IN /\ sync_port_with_schedule(device_id,
                   revoke_temporary_access(temporary_access, device_id),
                   punishment_mode)
          /\ response' = Reply("revoke_temporary_access", device_id, 200,
                               FALSE, {}, {}, FALSE, 0)
    /\ UNCHANGED <<now, devices, schedules, sqlite_sequence, started, threads>>

\* a handler that runs the reconciliation before it looks at the result
ActivatePunishmentMode_SyncAnyway(req) ==
    /\ started
    /\ LET device_id == get_device_id_from_request(req)
           next_start == get_next_schedule_start(device_id, now, schedules)
       IN IF next_start = {}
          THEN \* db.activate_punishment_mode returned None
               /\ response' = Reply("activate_punishment_mode", device_id, 400,
                                    FALSE, {}, {}, FALSE, 0)
               /\ sync_port_with_schedule(device_id, temporary_access, punishment_mode)
               /\ UNCHANGED sqlite_sequence
          ELSE \E t \in next_start :
                 LET puns == insert_punishment_mode(punishment_mode,
                                 sqlite_sequence.punishment_mode, device_id, now, t)
                 IN /\ sqlite_sequence.punishment_mode < MaxPunishment
                    /\ sync_port_with_schedule(device_id, temporary_access, puns)
                    /\ sqlite_sequence' = [sqlite_sequence EXCEPT !.punishment_mode = @ + 1]
                    /\ response' = Reply("activate_punishment_mode", device_id, 200, FALSE,
                                         {[id |-> sqlite_sequence.punishment_mode + 1,
                                           activated_at |-> isoformat(now),
                                           expires_at |-> isoformat(t)]}, {}, FALSE, 0)
    /\ UNCHANGED <<now, devices, schedules, started, threads>>

\* POST /api/punishment-mode
ActivatePunishmentMode(req) ==
    /\ started
    /\ LET device_id == get_device_id_from_request(req)
           next_start == get_next_schedule_start(device_id, now, schedules)
       IN IF next_start = {}
          THEN \* db.activate_punishment_mode returned None
               /\ response' = Reply("activate_punishment_mode", device_id, 400,
                                    FALSE, {}, {}, FALSE, 0)
               /\ driver_calls' = {}
               /\ UNCHANGED <<temporary_access, punishment_mode, sqlite_sequence,
                              port_states, switch_port>>
          ELSE \E t \in next_start :
                 LET puns == insert_punishment_mode(punishment_mode,
                                 sqlite_sequence.punishment_mode, device_id, now, t)
                 IN /\ sqlite_sequence.punishment_mode < MaxPunishment
                    /\ sync_port_with_schedule(device_id, temporary_access, puns)
                    /\ sqlite_sequence' = [sqlite_sequence EXCEPT !.punishment_mode = @ + 1]
                    /\ response' = Reply("activate_punishment_mode", device_id, 200, FALSE,
                                         {[id |-> sqlite_sequence.punishment_mode + 1,
                                           activated_at |-> isoformat(now),
                                           expires_at |-> isoformat(t)]}, {}, FALSE, 0)
    /\ UNCHANGED <<now, devices, schedules, started, threads>>

\* DELETE /api/punishment-mode
RevokePunishmentMode(req) ==
    /\ started
    /\ LET device_id == get_device_id_from_request(req)
       IN /\ sync_port_with_schedule(device_id, temporary_access,
                   revoke_punishment_mode(punishment_mode, device_id))
          /\ response' = Reply("revoke_punishment_mode", device_id, 200,
                               FALSE, {}, {}, FALSE, 0)
    /\ UNCHANGED <<now, devices, schedules, sqlite_sequence, started, threads>>

\* the instants at which an override of the store expires
Expiries ==
    {fromisoformat(r.expires_at) : r \in temporary_access \cup punishment_mode}

\* the instants the clock is observed at: the opening of the Monday window
\* and inside its first minute, after its end, a week later, and the expiry
\* of every override in the store
ClockInstants ==
    InstantsAt({0}, {<<9, 0>>})
    \cup {datetime(0, 9, 2), datetime(0, 17, 1), datetime(7, 9, 0)}
    \cup Expiries

LastInstant == datetime(LastDay, 23, 59)

\* time passes: the clock reads t
AdvanceClock(t) ==
    /\ t > now /\ t <= LastInstant /\ now' = t
    /\ driver_calls' = {}
    /\ response' = NoResponse
    /\ UNCHANGED <<store, port_states, switch_port, started, threads>>

Init ==
    /\ now = datetime(0, 8, 59)
    /\ devices = RegisteredDevices
    /\ schedules = {}
    /\ temporary_access = {}
    /\ punishment_mode = {}
    /\ sqlite_sequence = [devices |-> Cardinality(devices), schedules |-> 0, temporary_access |-> 0,
                          punishment_mode |-> 0]
    /\ port_states = [d \in {} |-> FALSE]
    /\ switch_port \in [DeviceIds -> BOOLEAN]
    /\ started = FALSE
    /\ driver_calls = {}
    /\ response = NoResponse
    /\ threads = IdleThreads

Next ==
    \/ StartupSync
    \/ SyncTick
    \/ \E t \in ClockInstants : AdvanceClock(t)
    \/ \E req \in DeviceIds \cup {NoDevice} : GetPortState(req)
    \/ \E req \in DeviceIds \cup {NoDevice} : TogglePort(req)
    \/ \E req \in DeviceIds \cup {NoDevice}, b \in BOOLEAN : SetPortState(req, b)
    \/ \E req \in DeviceIds \cup {NoDevice}, x \in SchedulePool :
          AddSchedule(req, x[1], x[2], x[3])
    \/ \E id \in 1..MaxSchedules : DeleteSchedule(id)
    \/ \E req \in DeviceIds \cup {NoDevice}, m \in Durations :
          GrantTemporaryAccess(req, m)
    \/ \E req \in DeviceIds \cup {NoDevice} : RevokeTemporaryAccess(req)
    \/ \E req \in DeviceIds \cup {NoDevice} : ActivatePunishmentMode(req)
    \/ \E req \in DeviceIds \cup {NoDevice} : RevokePunishmentMode(req)

Spec == Init /\ [][Next]_vars

(* The store under db.py's temporary access functions, called one at a   *)
(* time.  The store starts with no schedule, or with the Monday window of *)
(* the default device.                                                    *)

\* db.grant_temporary_access(duration_minutes, device_id)
DbGrantTemporaryAccess(device_id, duration_minutes) ==
    /\ IF get_active_temporary_access(temporary_access, device_id, now) # {}
       THEN \E existing \in get_active_temporary_access(temporary_access, device_id, now) :
              LET temps == extend_temporary_access(temporary_access, existing,
                                                   duration_minutes)
                  row == CHOOSE r \in temps : r.id = existing.id
              IN /\ fromisoformat(row.expires_at) <= plus_minutes(now, MaxAhead)
                 /\ temporary_access' = temps
                 /\ response' = Reply("grant_temporary_access", device_id, 200, FALSE,
                                      {[id |-> row.id, granted_at |-> row.granted_at,
                                        expires_at |-> row.expires_at]}, {}, TRUE, duration_minutes)
                 /\ UNCHANGED sqlite_sequence
       ELSE /\ sqlite_sequence.temporary_access < MaxTemporary
            /\ temporary_access' =
                 insert_temporary_access(temporary_access,
                     sqlite_sequence.temporary_access, device_id, now, duration_minutes)
            /\ sqlite_sequence' = [sqlite_sequence EXCEPT !.temporary_access = @ + 1]
            /\ response' = Reply("grant_temporary_access", device_id, 200, FALSE,
                                 {[id |-> sqlite_sequence.temporary_access + 1,
                                   granted_at |-> isoformat(now),
                                   expires_at |-> isoformat(plus_minutes(now, duration_minutes))]},
                                 {}, FALSE, duration_minutes)
    /\ UNCHANGED <<now, devices, schedules, punishment_mode, port_states,
                   switch_port, started, driver_calls, threads>>

\* db.revoke_temporary_access(device_id)
DbRevokeTemporaryAccess(device_id) ==
    /\ temporary_access' = revoke_temporary_access(temporary_access, device_id)
    /\ response' = Reply("revoke_temporary_access", device_id, 200, FALSE, {}, {}, FALSE, 0)
    /\ UNCHANGED <<now, devices, schedules, punishment_mode, sqlite_sequence,
                   port_states, switch_port, started, driver_calls, threads>>

InitAccess ==
    /\ now = datetime(0, 8, 59)
    /\ devices = RegisteredDevices
    /\ schedules \in {SchedulesOf({}), SchedulesOf({<<1, <<0, <<9, 0>>, <<17, 0>>>>>>})}
    /\ temporary_access = {}
    /\ punishment_mode = {}
    /\ sqlite_sequence = [devices |-> Cardinality(devices), schedules |-> Cardinality(schedules),
                          temporary_access |-> 0, punishment_mode |-> 0]
    /\ port_states = [d \in {} |-> FALSE]
    /\ switch_port = [d \in DeviceIds |-> FALSE]
    /\ started = TRUE
    /\ driver_calls = {}
    /\ response = NoResponse
    /\ threads = IdleThreads

NextAccess ==
    \/ \E t \in {datetime(0, 9, 0), datetime(0, 9, 2)} \cup Expiries : AdvanceClock(t)
    \/ \E d \in DeviceIds, m \in Durations \ {0} : DbGrantTemporaryAccess(d, m)
    \/ \E d \in DeviceIds : DbRevokeTemporaryAccess(d)
    \/ CleanupExpired
    \/ \E d \in DeviceIds : ShouldPortBeEnabled(d)

SpecAccess == InitAccess /\ [][NextAccess]_vars

(* db.grant_temporary_access called by request threads that run at the   *)
(* same time (the server handles each request in a thread of its own).    *)
(* The function reads the clock, then reads the active grant over one     *)
(* connection, then writes over another one: the two store accesses are   *)
(* two steps, and other threads run between them.                         *)

Workers == 1..NumWorkers

IdleThread ==
    [pc |-> "idle", device_id |-> NoDevice, minutes |-> 0, now |-> 0, existing |-> {}]

\* rows the threads between their read and their write are about to insert
PendingInserts ==
    Cardinality({w \in Workers : threads[w].pc = "write" /\ threads[w].existing = {}})

\* lines 315-318: now = get_local_now(); existing = get_active_temporary_access()
GrantRead(w, device_id, duration_minutes) ==
    /\ threads[w].pc = "idle"
    /\ \E existing \in Limit1(get_active_temporary_access(temporary_access, device_id, now)) :
          /\ existing = {} =>
                sqlite_sequence.temporary_access + PendingInserts < MaxTemporary
          /\ \A r \in existing :
                fromisoformat(r.expires_at) + duration_minutes * TicksPerMin
                    <= plus_minutes(now, MaxAhead)
          /\ threads' = [threads EXCEPT ![w] =
                            [pc |-> "write", device_id |-> device_id,
                             minutes |-> duration_minutes, now |-> now,
                             existing |-> existing]]
    /\ UNCHANGED <<now, store, port_states, switch_port, started, driver_calls, response>>

\* lines 320-355: the UPDATE of the row read, or the INSERT of a new row
GrantWrite(w) ==
    /\ threads[w].pc = "write"
    /\ LET t == threads[w]
       IN IF t.existing # {}
          THEN \E existing \in t.existing :
                 LET new_expires == plus_minutes(fromisoformat(existing.expires_at), t.minutes)
                 IN /\ temporary_access' =
                         extend_temporary_access(temporary_access, existing, t.minutes)
                    /\ response' = Reply("grant_temporary_access", t.device_id, 200, FALSE,
                                         {[id |-> existing.id,
                                           granted_at |-> existing.granted_at,
                                           expires_at |-> isoformat(new_expires)]},
                                         {}, TRUE, t.minutes)
                    /\ UNCHANGED sqlite_sequence
          ELSE /\ temporary_access' =
                    insert_temporary_access(temporary_access,
                        sqlite_sequence.temporary_access, t.device_id, t.now, t.minutes)
               /\ sqlite_sequence' = [sqlite_sequence EXCEPT !.temporary_access = @ + 1]
               /\ response' = Reply("grant_temporary_access", t.device_id, 200, FALSE,
                                    {[id |-> sqlite_sequence.temporary_access + 1,
                                      granted_at |-> isoformat(t.now),
                                      expires_at |-> isoformat(plus_minutes(t.now, t.minutes))]},
                                    {}, FALSE, t.minutes)
    /\ threads' = [threads EXCEPT ![w] = IdleThread]
    /\ UNCHANGED <<now, devices, schedules, punishment_mode, port_states,
                   switch_port, started, driver_calls>>

\* another thread's db.revoke_temporary_access
ThreadRevoke(device_id) ==
    /\ temporary_access' = revoke_temporary_access(temporary_access, device_id)
    /\ UNCHANGED <<now, devices, schedules, punishment_mode, sqlite_sequence,
                   port_states, switch_port, started, driver_calls, response, threads>>

\* the scheduler thread's db.cleanup_expired_temporary_access()
ThreadCleanup ==
    /\ temporary_access' = cleanup_expired_temporary_access(temporary_access, now)
    /\ UNCHANGED <<now, devices, schedules, punishment_mode, sqlite_sequence,
                   port_states, switch_port, started, driver_calls, response, threads>>

\* time passes while the threads run
ThreadClock(t) ==
    /\ t > now /\ t <= LastInstant /\ now' = t
    /\ UNCHANGED <<store, port_states, switch_port, started, driver_calls,
                   response, threads>>

InitThreads ==
    /\ now = datetime(0, 8, 59)
    /\ devices = RegisteredDevices
    /\ schedules = {}
    /\ temporary_access = {}
    /\ punishment_mode = {}
    /\ sqlite_sequence = [devices |-> Cardinality(devices), schedules |-> 0, temporary_access |-> 0,
                          punishment_mode |-> 0]
    /\ port_states = [d \in {} |-> FALSE]
    /\ switch_port = [d \in DeviceIds |-> FALSE]
    /\ started = TRUE
    /\ driver_calls = {}
    /\ response = NoResponse
    /\ threads = [w \in Workers |-> IdleThread]

NextThreads ==
    \/ \E w \in Workers, d \in DeviceIds, m \in Durations \ {0} : GrantRead(w, d, m)
    \/ \E w \in Workers : GrantWrite(w)
    \/ \E d \in DeviceIds : ThreadRevoke(d)
    \/ ThreadCleanup
    \/ \E t \in {datetime(0, 9, 2), datetime(0, 9, 4)} : ThreadClock(t)

SpecThreads == InitThreads /\ [][NextThreads]_vars

(* The program under the schedule and punishment mode requests, one at a  *)
(* time, from an empty store and ports that are off, around the opening   *)
(* of the Monday window.                                                  *)

\* the schedules the requests add: the Monday and the Tuesday window
PunishmentSchedulePool == {x \in SchedulePool : x[3] = <<17, 0>>}

InitPunishment ==
    /\ now = datetime(0, 8, 59)
    /\ devices = RegisteredDevices
    /\ schedules = {}
    /\ temporary_access = {}
    /\ punishment_mode = {}
    /\ sqlite_sequence = [devices |-> Cardinality(devices), schedules |-> 0, temporary_access |-> 0,
                          punishment_mode |-> 0]
    /\ port_states = [d \in {} |-> FALSE]
    /\ switch_port = [d \in DeviceIds |-> FALSE]
    /\ started = FALSE
    /\ driver_calls = {}
    /\ response = NoResponse
    /\ threads = IdleThreads

NextPunishment ==
    \/ StartupSync
    \/ SyncTick
    \/ AdvanceClock(datetime(0, 9, 0))
    \/ \E req \in DeviceIds \cup {NoDevice}, x \in PunishmentSchedulePool :
          AddSchedule(req, x[1], x[2], x[3])
    \/ \E id \in 1..MaxSchedules : DeleteSchedule(id)
    \/ \E req \in DeviceIds \cup {NoDevice} : ActivatePunishmentMode(req)
    \/ \E req \in DeviceIds \cup {NoDevice} : RevokePunishmentMode(req)

SpecPunishment == InitPunishment /\ [][NextPunishment]_vars

(* The program under the temporary access and punishment mode requests   *)
(* for the default device, one at a time, around the opening of its Monday *)
(* window; the startup sync has run and reached no switch, so that every   *)
(* device is observed off.                                                 *)

\* the device_id of the requests: none, or the default device's
DefaultRequests == {NoDevice, get_default_device_id(RegisteredDevices)}

InitMutations ==
    /\ now = datetime(0, 8, 59)
    /\ devices = RegisteredDevices
    /\ schedules \in {SchedulesOf({}), SchedulesOf({<<1, <<0, <<9, 0>>, <<17, 0>>>>>>})}
    /\ temporary_access = {}
    /\ punishment_mode = {}
    /\ sqlite_sequence = [devices |-> Cardinality(devices), schedules |-> Cardinality(schedules),
                          temporary_access |-> 0, punishment_mode |-> 0]
    /\ port_states = [d \in DeviceIds |-> FALSE]
    /\ switch_port = [d \in DeviceIds |-> FALSE]
    /\ started = TRUE
    /\ driver_calls = {}
    /\ response = NoResponse
    /\ threads = IdleThreads

NextMutations ==
    \/ AdvanceClock(datetime(0, 9, 0))
    \/ \E req \in DefaultRequests, m \in {0, 5} : GrantTemporaryAccess(req, m)
    \/ \E req \in DefaultRequests : RevokeTemporaryAccess(req)
    \/ \E req \in DefaultRequests : ActivatePunishmentMode(req)
    \/ \E req \in DefaultRequests : RevokePunishmentMode(req)

SpecMutations == InitMutations /\ [][NextMutations]_vars

(* The port handlers beside the startup, the job and the request that     *)
(* revokes temporary access.  The devices table is the one init_db makes    *)
(* from the environment (device 1 is the default) with a second device     *)
(* added, or two devices added to a table that init_db left empty (no      *)
(* default device).                                                        *)

\* the requests: no device named, a registered device, an unknown device
PortRequests == {NoDevice} \cup DeviceIds \cup {NumDevices + 1}

DeviceTables ==
    {RegisteredDevices, {[id |-> d, is_default |-> FALSE] : d \in DeviceIds}}

InitPort ==
    /\ now = datetime(0, 8, 59)
    /\ devices \in DeviceTables
    /\ schedules \in {SchedulesOf({}), SchedulesOf({<<1, <<0, <<9, 0>>, <<17, 0>>>>>>})}
    /\ temporary_access = {}
    /\ punishment_mode = {}
    /\ sqlite_sequence = [devices |-> Cardinality(devices), schedules |-> Cardinality(schedules),
                          temporary_access |-> 0, punishment_mode |-> 0]
    /\ port_states = [d \in {} |-> FALSE]
    /\ switch_port \in [DeviceIds -> BOOLEAN]
    /\ started = FALSE
    /\ driver_calls = {}
    /\ response = NoResponse
    /\ threads = IdleThreads

NextPort ==
    \/ StartupSync
    \/ SyncTick
    \/ AdvanceClock(datetime(0, 9, 0))
    \/ \E req \in PortRequests : GetPortState(req)
    \/ \E req \in PortRequests : TogglePort(req)
    \/ \E req \in PortRequests, b \in BOOLEAN : SetPortState(req, b)
    \/ \E req \in PortRequests : RevokeTemporaryAccess(req)

SpecPort == InitPort /\ [][NextPort]_vars

(* The store under db.py's override functions, called one at a time, on  *)
(* tables that start with up to two active rows of either device, expired *)
(* or not.                                                                *)

\* the rows an override table may hold at t before anything revokes or
\* cleans them: flagged active, expired at t or expiring one tick later
OverrideRows(t, id) ==
    {[id |-> id, device_id |-> d, expires_at |-> isoformat(e), active |-> TRUE,
      granted_at |-> isoformat(plus_minutes(e, -5))] :
        d \in DeviceIds, e \in {t, t + 1}}

\* temporary_access tables of zero, one or two rows
GrantTables(t) ==
    {{}} \cup {{r} : r \in OverrideRows(t, 1)}
         \cup {{r, q} : r \in OverrideRows(t, 1), q \in OverrideRows(t, 2)}

\* the punishment_mode row with the columns of a temporary_access row
AsPunishment(r) ==
    [id |-> r.id, device_id |-> r.device_id, expires_at |-> r.expires_at,
     active |-> r.active, activated_at |-> r.granted_at]

\* punishment_mode tables of zero, one or two rows
PunishTables(t) == {{AsPunishment(r) : r \in T} : T \in GrantTables(t)}

\* db.revoke_punishment_mode(device_id)
DbRevokePunishmentMode(device_id) ==
    /\ punishment_mode' = revoke_punishment_mode(punishment_mode, device_id)
    /\ response' = Reply("revoke_punishment_mode", device_id, 200, FALSE, {}, {}, FALSE, 0)
    /\ UNCHANGED <<now, devices, schedules, temporary_access, sqlite_sequence,
                   port_states, switch_port, started, driver_calls, threads>>

InitStore ==
    /\ now = datetime(0, 9, 0)
    /\ devices = RegisteredDevices
    /\ schedules \in {SchedulesOf({}), SchedulesOf({<<1, <<1, <<9, 0>>, <<17, 0>>>>>>})}
    /\ temporary_access \in GrantTables(now)
    /\ punishment_mode \in PunishTables(now)
    /\ sqlite_sequence = [devices |-> Cardinality(devices),
                          schedules |-> Cardinality(schedules),
                          temporary_access |-> Cardinality(temporary_access),
                          punishment_mode |-> Cardinality(punishment_mode)]
    /\ port_states = [d \in {} |-> FALSE]
    /\ switch_port = [d \in DeviceIds |-> FALSE]
    /\ started = TRUE
    /\ driver_calls = {}
    /\ response = NoResponse
    /\ threads = IdleThreads

NextStore ==
    \/ \E d \in DeviceIds : DbGrantTemporaryAccess(d, 5)
    \/ \E d \in DeviceIds : DbRevokeTemporaryAccess(d)
    \/ \E d \in DeviceIds : DbRevokePunishmentMode(d)
    \/ CleanupExpired

SpecStore == InitStore /\ [][NextStore]_vars

(* The devices table under db.py's device functions, called one at a     *)
(* time.  init_db has created the default device from the environment; it *)
(* has a schedule and may have a grant and a punishment.                  *)

\* db.add_device(..., is_default)
DbAddDevice(is_default) ==
    /\ sqlite_sequence.devices < MaxDevices
    /\ devices' = add_device(devices, sqlite_sequence.devices, is_default)
    /\ sqlite_sequence' = [sqlite_sequence EXCEPT !.devices = @ + 1]
    /\ response' = Reply("add_device", sqlite_sequence.devices + 1, 200, FALSE,
                         {}, {}, FALSE, 0)
    /\ UNCHANGED <<now, schedules, temporary_access, punishment_mode, port_states,
                   switch_port, started, driver_calls, threads>>

\* db.update_device(device_id, ..., is_default)
DbUpdateDevice(device_id, is_default) ==
    /\ devices' = update_device(devices, device_id, is_default)
    /\ response' = Reply("update_device", device_id, 200, FALSE, {}, {}, FALSE, 0)
    /\ UNCHANGED <<now, schedules, temporary_access, punishment_mode,
                   sqlite_sequence, port_states, switch_port, started,
                   driver_calls, threads>>

\* db.delete_device(device_id); rows of the response: the row the function
\* read with SELECT is_default FROM devices WHERE id = ?
DbDeleteDevice(device_id) ==
    /\ \E new_default \in Limit1({d.id : d \in {x \in devices : x.id # device_id}}) :
          devices' = delete_device(devices, device_id, new_default)
    /\ \E foreign_keys \in BOOLEAN :
          /\ schedules' = on_delete_cascade(schedules, device_id, foreign_keys)
          /\ temporary_access' = on_delete_cascade(temporary_access, device_id, foreign_keys)
          /\ punishment_mode' = on_delete_cascade(punishment_mode, device_id, foreign_keys)
    /\ response' = Reply("delete_device", device_id, 200, FALSE,
                         get_device(devices, device_id), {}, FALSE, 0)
    /\ UNCHANGED <<now, sqlite_sequence, port_states, switch_port, started,
                   driver_calls, threads>>

InitDevices ==
    /\ now = datetime(0, 9, 0)
    /\ devices = {[id |-> 1, is_default |-> TRUE]}
    /\ schedules = SchedulesOf({<<1, <<0, <<9, 0>>, <<17, 0>>>>>>})
    /\ temporary_access \in TemporaryTables(now)
    /\ punishment_mode \in PunishmentTables(now)
    /\ sqlite_sequence = [devices |-> Cardinality(devices),
                          schedules |-> Cardinality(schedules),
                          temporary_access |-> Cardinality(temporary_access),
                          punishment_mode |-> Cardinality(punishment_mode)]
    /\ port_states = [d \in {} |-> FALSE]
    /\ switch_port = [d \in DeviceIds |-> FALSE]
    /\ started = TRUE
    /\ driver_calls = {}
    /\ response = NoResponse
    /\ threads = IdleThreads

NextDevices ==
    \/ \E is_default \in BOOLEAN : DbAddDevice(is_default)
    \/ \E d \in 1..MaxDevices, is_default \in BOOLEAN : DbUpdateDevice(d, is_default)
    \/ \E d \in 1..MaxDevices : DbDeleteDevice(d)

SpecDevices == InitDevices /\ [][NextDevices]_vars

(* sync_port_with_schedule run by threads at the same time: the job in    *)
(* the scheduler's thread (the scheduler runs one instance of a job at a   *)
(* time), and the run a request makes after its store write, in the        *)
(* request's thread.  A run reads port_states[dev_id], calls the driver    *)
(* over the network, then writes port_states[dev_id]; no lock is held, so  *)
(* the steps of other threads come between the read, the call and the      *)
(* write.                                                                  *)

SchedulerThread == 1

\* todo: the devices the loop of the run has still to visit
IdleRun == [pc |-> "idle", device_id |-> NoDevice, todo |-> {}, should |-> FALSE]

\* the run has visited its device: the loop goes on, or the run ends
AfterVisit(run) ==
    IF run.todo \ {run.device_id} = {} THEN IdleRun
    ELSE [pc |-> "loop", device_id |-> NoDevice,
          todo |-> run.todo \ {run.device_id}, should |-> FALSE]

\* in these runs driver_calls holds the driver calls made since the last
\* time no run was in progress
CallsSinceIdle ==
    IF \A w \in DOMAIN threads : threads[w].pc = "idle" THEN {} ELSE driver_calls

\* lines 71-83 of the job: the cleanup, then the devices to visit
TickBegin ==
    /\ threads[SchedulerThread].pc = "idle"
    /\ temporary_access' = cleanup_expired_temporary_access(temporary_access, now)
    /\ punishment_mode' = cleanup_expired_punishment_mode(punishment_mode, now)
    /\ threads' = [threads EXCEPT ![SchedulerThread] =
                      [pc |-> "loop", device_id |-> NoDevice,
                       todo |-> SyncDevices(NoDevice), should |-> FALSE]]
    /\ driver_calls' = CallsSinceIdle
    /\ UNCHANGED <<now, devices, schedules, sqlite_sequence, port_states,
                   switch_port, started, response>>

\* a request thread: the store write of POST or DELETE /api/temporary-access
\* and lines 71-83 of the run it starts for its device
RequestBegin(w, device_id, grant) ==
    /\ w # SchedulerThread
    /\ threads[w].pc = "idle"
    /\ IF grant
       THEN /\ get_active_temporary_access(temporary_access, device_id, now) = {}
            /\ sqlite_sequence.temporary_access < MaxTemporary
            /\ temporary_access' =
                 cleanup_expired_temporary_access(
                    insert_temporary_access(temporary_access,
                        sqlite_sequence.temporary_access, device_id, now, 5), now)
            /\ sqlite_sequence' = [sqlite_sequence EXCEPT !.temporary_access = @ + 1]
       ELSE /\ temporary_access' =
                 cleanup_expired_temporary_access(
                    revoke_temporary_access(temporary_access, device_id), now)
            /\ UNCHANGED sqlite_sequence
    /\ punishment_mode' = cleanup_expired_punishment_mode(punishment_mode, now)
    /\ threads' = [threads EXCEPT ![w] =
                      [pc |-> "loop", device_id |-> NoDevice,
                       todo |-> SyncDevices(device_id), should |-> FALSE]]
    /\ driver_calls' = CallsSinceIdle
    /\ UNCHANGED <<now, devices, schedules, port_states, switch_port, started,
                   response>>

\* lines 85-99: the next device of the loop, its desired and observed state
LoopRead(w) ==
    /\ threads[w].pc = "loop"
    /\ LET d == CHOOSE x \in threads[w].todo : \A y \in threads[w].todo : x <= y
           should == should_port_be_enabled(d, now, schedules,
                                            temporary_access, punishment_mode)
           run == [pc |-> "driver", device_id |-> d,
                   todo |-> threads[w].todo, should |-> should]
       IN /\ port_states' = [x \in DOMAIN port_states \cup {d} |-> CurrentState(x)]
          /\ threads' = [threads EXCEPT ![w] =
                            IF CurrentState(d) # should THEN run ELSE AfterVisit(run)]
    /\ UNCHANGED <<now, store, switch_port, started, driver_calls, response>>

\* lines 101-103: login_to_switch and control_port, over the network
LoopCommand(w) ==
    /\ threads[w].pc = "driver"
    /\ LET d == threads[w].device_id
       IN \E outcome \in DriverOutcomes :
            /\ switch_port' = IF outcome = "ok"
                              THEN [switch_port EXCEPT ![d] = threads[w].should]
                              ELSE switch_port
            /\ driver_calls' = driver_calls \cup CallsFor(d, threads[w].should, outcome)
            /\ threads' = [threads EXCEPT ![w] =
                              IF outcome = "ok" THEN [threads[w] EXCEPT !.pc = "write"]
                              ELSE AfterVisit(threads[w])]
    /\ UNCHANGED <<now, store, port_states, started, response>>

\* lines 104-105: the write of port_states after control_port returned True
LoopWrite(w) ==
    /\ threads[w].pc = "write"
    /\ port_states' = [port_states EXCEPT ![threads[w].device_id] = threads[w].should]
    /\ threads' = [threads EXCEPT ![w] = AfterVisit(threads[w])]
    /\ UNCHANGED <<now, store, switch_port, started, driver_calls, response>>

InitRuns ==
    /\ now = datetime(0, 8, 59)
    /\ devices = RegisteredDevices
    /\ schedules = SchedulesOf({<<1, <<0, <<9, 0>>, <<17, 0>>>>>>})
    /\ temporary_access = {}
    /\ punishment_mode = {}
    /\ sqlite_sequence = [devices |-> Cardinality(devices), schedules |-> Cardinality(schedules),
                          temporary_access |-> 0, punishment_mode |-> 0]
    /\ port_states = [d \in DeviceIds |-> FALSE]
    /\ switch_port = [d \in DeviceIds |-> FALSE]
    /\ started = TRUE
    /\ driver_calls = {}
    /\ response = NoResponse
    /\ threads = [w \in Workers |-> IdleRun]

NextRuns ==
    \/ TickBegin
    \/ \E w \in Workers, d \in DeviceIds, grant \in BOOLEAN : RequestBegin(w, d, grant)
    \/ \E w \in Workers : LoopRead(w)
    \/ \E w \in Workers : LoopCommand(w)
    \/ \E w \in Workers : LoopWrite(w)

SpecRuns == InitRuns /\ [][NextRuns]_vars

(* The reconciliation loop alone: the startup sync, then the periodic job *)
(* while time passes, over a store that no request changes.  The ports of  *)
(* the switches are in any state when the process starts.  __main__ runs    *)
(* the startup sync once, the scheduler runs the job every minute and the   *)
(* clock advances: each of them is weakly fair.                             *)

InitConverge ==
    /\ now = datetime(0, 8, 59)
    /\ devices = RegisteredDevices
    /\ schedules \in ScheduleTables
    /\ temporary_access = {}
    /\ punishment_mode = {}
    /\ sqlite_sequence = [devices |-> Cardinality(devices), schedules |-> Cardinality(schedules),
                          temporary_access |-> 0, punishment_mode |-> 0]
    /\ port_states = [d \in {} |-> FALSE]
    /\ switch_port \in [DeviceIds -> BOOLEAN]
    /\ started = FALSE
    /\ driver_calls = {}
    /\ response = NoResponse
    /\ threads = IdleThreads

NextConverge ==
    \/ StartupSync
    \/ SyncTick
    \/ AdvanceClock(datetime(0, 9, 0))

SpecConverge ==
    /\ InitConverge /\ [][NextConverge]_vars
    /\ WF_vars(StartupSync)
    /\ WF_vars(SyncTick)
    /\ WF_vars(AdvanceClock(datetime(0, 9, 0)))

-----------------------------------------------------------------------------
(* Claims about the desired-state resolver (SpecResolver, SpecNextStart) *)

\* the rows of a table whose flag is still set although they have expired
Stale(rows, t) == {r \in rows : r.active /\ fromisoformat(r.expires_at) <= t}

\* the rows of one device that are active and not expired, by the clock
Current(rows, device_id, t) ==
    {r \in rows : r.device_id = device_id /\ r.active
                  /\ fromisoformat(r.expires_at) > t}

\* minutes since midnight, of an "HH:MM" text and of an instant
MinuteOfText(hm) == hm[1] * 60 + hm[2]
MinuteOfDay(t) == (t % TicksPerDay) \div TicksPerMin

\* a schedule row whose window, in minutes, holds the instant t
Open(s, t) ==
    /\ s.day_of_week = (t \div TicksPerDay) % 7
    /\ MinuteOfText(s.start_time) <= MinuteOfDay(t)
    /\ MinuteOfDay(t) <= MinuteOfText(s.end_time)

Asked(op) == response.op = op /\ response.code = 200

\* C1: with an active, unexpired punishment mode of the device,
\* should_port_be_enabled answers false, whatever schedules and temporary
\* grants the device has.
C1_PunishmentDisables ==
    (Asked("should_port_be_enabled")
        /\ Current(punishment_mode, response.device_id, now) # {})
    => response.enabled = FALSE

C1_Witness ==
    /\ Asked("should_port_be_enabled")
    /\ Current(punishment_mode, response.device_id, now) # {}
    /\ Current(temporary_access, response.device_id, now) # {}
    /\ \E s \in schedules : s.device_id = response.device_id /\ Open(s, now)
    /\ response.enabled = FALSE

\* C2: with no active, unexpired punishment mode and an active, unexpired
\* temporary grant, should_port_be_enabled answers true, whatever the
\* schedules.
C2_TemporaryAccessEnables ==
    (Asked("should_port_be_enabled")
        /\ Current(punishment_mode, response.device_id, now) = {}
        /\ Current(temporary_access, response.device_id, now) # {})
    => response.enabled = TRUE

C2_Witness ==
    /\ Asked("should_port_be_enabled")
    /\ Current(punishment_mode, response.device_id, now) = {}
    /\ Stale(punishment_mode, now) # {}
    /\ Current(temporary_access, response.device_id, now) # {}
    /\ \E s \in schedules : s.device_id = response.device_id
    /\ \A s \in schedules : s.device_id = response.device_id => ~Open(s, now)
    /\ response.enabled = TRUE

\* C3: a row whose flag is still set but whose expires_at <= now is treated
\* as absent: every resolver answer is the answer over the tables without
\* the stale rows, and the answer over the tables after the cleanup.
C3_StaleRowsAreAbsent ==
    /\ Asked("should_port_be_enabled") =>
         /\ response.enabled =
              should_port_be_enabled(response.device_id, now, schedules,
                  temporary_access \ Stale(temporary_access, now),
                  punishment_mode \ Stale(punishment_mode, now))
         /\ response.enabled =
              should_port_be_enabled(response.device_id, now, schedules,
                  cleanup_expired_temporary_access(temporary_access, now),
                  cleanup_expired_punishment_mode(punishment_mode, now))
    /\ Asked("get_active_temporary_access") =>
         /\ response.rows \subseteq Current(temporary_access, response.device_id, now)
         /\ (response.rows = {}) =
              (Current(temporary_access \ Stale(temporary_access, now),
                       response.device_id, now) = {})
    /\ Asked("get_active_punishment_mode") =>
         /\ response.rows \subseteq Current(punishment_mode, response.device_id, now)
         /\ (response.rows = {}) =
              (Current(punishment_mode \ Stale(punishment_mode, now),
                       response.device_id, now) = {})

C3_Witness ==
    /\ Asked("should_port_be_enabled")
    /\ \E r \in Stale(temporary_access, now) : r.device_id = response.device_id
    /\ Current(punishment_mode, response.device_id, now) = {}
    /\ \E s \in schedules : s.device_id = response.device_id
    /\ response.enabled = FALSE

\* C4: without a current override and with at least one schedule, the answer
\* is true exactly when a schedule of the device is for today's weekday and
\* start_time <= now.time <= end_time, both ends included.
C4_ScheduleWindowClosed ==
    (Asked("should_port_be_enabled")
        /\ Current(punishment_mode, response.device_id, now) = {}
        /\ Current(temporary_access, response.device_id, now) = {}
        /\ \E s \in schedules : s.device_id = response.device_id)
    => (response.enabled =
            \E s \in schedules : s.device_id = response.device_id /\ Open(s, now))

\* the last instant of the minute end_time of the only open window
C4_Witness ==
    /\ Asked("should_port_be_enabled")
    /\ Current(punishment_mode, response.device_id, now) = {}
    /\ Current(temporary_access, response.device_id, now) = {}
    /\ \E s \in schedules :
          /\ s.device_id = response.device_id
          /\ Open(s, now)
          /\ MinuteOfDay(now) = MinuteOfText(s.end_time)
          /\ now % TicksPerMin = TicksPerMin - 1
    /\ response.enabled = TRUE

\* C5: a device with zero schedules and no current override is enabled at
\* every time (fail-open).
C5_FailOpen ==
    (Asked("should_port_be_enabled")
        /\ Current(punishment_mode, response.device_id, now) = {}
        /\ Current(temporary_access, response.device_id, now) = {}
        /\ ~\E s \in schedules : s.device_id = response.device_id)
    => response.enabled = TRUE

\* the other device has a schedule that is closed now
C5_Witness ==
    /\ Asked("should_port_be_enabled")
    /\ ~\E s \in schedules : s.device_id = response.device_id
    /\ \E s \in schedules : ~Open(s, now)
    /\ Stale(temporary_access, now) # {}
    /\ response.enabled = TRUE

\* every weekly occurrence of a start time of the device, two weeks ahead
Occurrences(device_id, t) ==
    {datetime(d, s.start_time[1], s.start_time[2]) :
        <<d, s>> \in {x \in ((t \div TicksPerDay)..(t \div TicksPerDay) + 14)
                              \X {q \in schedules : q.device_id = device_id} :
                         x[1] % 7 = x[2].day_of_week}}

Earliest(S) == CHOOSE x \in S : \A y \in S : x <= y

\* C8: get_next_schedule_start never returns today's occurrence of a schedule
\* whose start_time <= now.time; with one schedule, on now's weekday and
\* already started, it returns that start_time 7 days later.
C8_StartedTodayIsNextWeek ==
    Asked("get_next_schedule_start") =>
      /\ \A t \in response.at :
            (t \div TicksPerDay) = (now \div TicksPerDay)
               => MinuteOfDay(t) > MinuteOfDay(now)
      /\ \A s \in schedules :
            ( /\ {q \in schedules : q.device_id = response.device_id} = {s}
              /\ s.day_of_week = (now \div TicksPerDay) % 7
              /\ MinuteOfText(s.start_time) <= MinuteOfDay(now) )
            => response.at =
                 {((now \div TicksPerDay) + 7) * TicksPerDay
                     + MinuteOfText(s.start_time) * TicksPerMin}

\* Monday 09:00-17:00 asked on the first Monday at 10:00: the next Monday
C8_Witness ==
    /\ Asked("get_next_schedule_start")
    /\ now = datetime(0, 10, 0)
    /\ \E s \in schedules :
          /\ {q \in schedules : q.device_id = response.device_id} = {s}
          /\ s.day_of_week = 0 /\ s.start_time = <<9, 0>> /\ s.end_time = <<17, 0>>
    /\ response.at = {datetime(7, 9, 0)}

\* C9: for a device with a schedule, get_next_schedule_start returns the
\* earliest weekly occurrence of a start time strictly after now, which is
\* at most 7 days after now.
C9_EarliestOccurrenceAfterNow ==
    (Asked("get_next_schedule_start")
        /\ \E s \in schedules : s.device_id = response.device_id)
    => /\ response.at =
            {Earliest({o \in Occurrences(response.device_id, now) : o > now})}
       /\ \A t \in response.at : now < t /\ t <= now + 7 * TicksPerDay

\* two schedules of the device, asked on a Sunday at 23:00: Monday 09:00
C9_Witness ==
    /\ Asked("get_next_schedule_start")
    /\ now = datetime(6, 23, 0)
    /\ Cardinality({s \in schedules : s.device_id = response.device_id}) = 2
    /\ response.at = {datetime(7, 9, 0)}

-----------------------------------------------------------------------------
(* Claims about temporary access (SpecAccess) *)

\* a step of db.grant_temporary_access: it always writes the table
GrantStep ==
    /\ response'.op = "grant_temporary_access"
    /\ temporary_access' # temporary_access

\* C6: a grant of d minutes made while the device has a current grant with
\* expiry E inserts no row, sets that grant's expires_at to E + d minutes
\* and returns extended = true; and no other step changes an expires_at, so
\* that n such grants end at E + d1 + ... + dn.
C6_ExtendFromExistingExpiry ==
    [][ /\ (GrantStep /\ Current(temporary_access, response'.device_id, now) # {})
           => \E r \in Current(temporary_access, response'.device_id, now) :
                LET e == fromisoformat(r.expires_at) + response'.minutes * TicksPerMin
                IN /\ temporary_access' =
                        (temporary_access \ {r})
                           \cup {[r EXCEPT !.expires_at = isoformat(e)]}
                   /\ response'.extended = TRUE
                   /\ response'.rows = {[id |-> r.id, granted_at |-> r.granted_at,
                                        expires_at |-> isoformat(e)]}
        /\ \A r \in temporary_access :
              \E q \in temporary_access' :
                 /\ q.id = r.id
                 /\ (q.expires_at # r.expires_at
                        => GrantStep /\ r \in Current(temporary_access,
                                                      response'.device_id, now))
      ]_vars

\* 10 minutes granted at T = 08:59, 5 more at T + 3 minutes: expiry T + 15
C6_Witness ==
    /\ now = datetime(0, 9, 2)
    /\ response.op = "grant_temporary_access"
    /\ response.extended = TRUE
    /\ response.minutes = 5
    /\ \E r \in temporary_access :
          /\ r.granted_at = isoformat(datetime(0, 8, 59))
          /\ r.expires_at = isoformat(datetime(0, 9, 14))
          /\ temporary_access = {r}

\* C7: after any sequence and any interleaving of grants, revocations and
\* cleanups, a device has at most one temporary_access row that is active
\* and unexpired.
C7_AtMostOneCurrentGrant ==
    \A d \in DeviceIds : Cardinality(Current(temporary_access, d, now)) <= 1

-----------------------------------------------------------------------------
(* Claims about punishment mode (SpecPunishment) *)

\* C10: activating punishment mode fails exactly when the device has no
\* schedule, which is exactly when get_next_schedule_start returns None; a
\* failure is answered with the "no schedules" error, inserts no
\* punishment_mode row, changes no other row of the store, and runs no
\* reconciliation: no driver call, port_states unchanged.
C10_NoSchedulesNoPunishment ==
    [][ response'.op = "activate_punishment_mode" =>
          LET d == response'.device_id
          IN /\ (response'.code = 400) = (~\E s \in schedules : s.device_id = d)
             /\ (response'.code = 400) = (get_next_schedule_start(d, now, schedules) = {})
             /\ response'.code # 400 =>
                  /\ response'.code = 200
                  /\ \E r \in punishment_mode' \ punishment_mode : r.device_id = d
             /\ response'.code = 400 =>
                  /\ response'.rows = {}
                  /\ punishment_mode' = punishment_mode
                  /\ store' = store
                  /\ port_states' = port_states
                  /\ switch_port' = switch_port
                  /\ driver_calls' = {}
      ]_vars

\* the refused device is believed off although it should be on, the other
\* device has a schedule and a punishment row that has expired but is
\* still flagged active: a reconciliation would have had work to do
C10_Witness ==
    /\ response.op = "activate_punishment_mode"
    /\ response.code = 400
    /\ \E s \in schedules : s.device_id # response.device_id
    /\ Stale(punishment_mode, now) # {}
    /\ response.device_id \in DOMAIN port_states
    /\ port_states[response.device_id] = FALSE
    /\ should_port_be_enabled(response.device_id, now, schedules,
                              temporary_access, punishment_mode)

\* C11: a successful activation at now inserts one row with active set,
\* activated_at = now and expires_at = the earliest start of a window of the
\* device strictly after now; and no step, AddSchedule and DeleteSchedule
\* included, changes the expires_at or activated_at of a stored row.
C11_ExpiresAtNextStartFixed ==
    [][ /\ (response'.op = "activate_punishment_mode" /\ response'.code = 200) =>
            LET d == response'.device_id
                e == Earliest({o \in Occurrences(d, now) : o > now})
                row == [id |-> sqlite_sequence.punishment_mode + 1,
                        device_id |-> d, activated_at |-> isoformat(now),
                        expires_at |-> isoformat(e), active |-> TRUE]
            IN /\ e > now
               /\ row \in punishment_mode'
               /\ \A r \in punishment_mode' : r.id = row.id \/ r.id < row.id
               /\ \A r \in punishment_mode : r.id < row.id
               /\ Cardinality(punishment_mode') = Cardinality(punishment_mode) + 1
               /\ response'.rows = {[id |-> row.id, activated_at |-> row.activated_at,
                                     expires_at |-> row.expires_at]}
        /\ \A r \in punishment_mode :
              \E q \in punishment_mode' :
                 /\ q.id = r.id /\ q.device_id = r.device_id
                 /\ q.expires_at = r.expires_at
                 /\ q.activated_at = r.activated_at
        /\ response'.op \in {"add_schedule", "delete_schedule"} =>
              punishment_mode' = punishment_mode
      ]_vars

\* the device was punished on Monday at 08:59 until 09:00, its only schedule
\* was deleted and the Tuesday window added: the row still expires at 09:00
C11_Witness ==
    /\ response.op = "add_schedule" /\ response.code = 200
    /\ \E r \in punishment_mode :
          /\ r.active
          /\ r.device_id = response.device_id
          /\ r.activated_at = isoformat(datetime(0, 8, 59))
          /\ r.expires_at = isoformat(datetime(0, 9, 0))
          /\ \A s \in schedules : s.device_id = r.device_id => s.day_of_week = 1
          /\ \E s \in schedules : s.device_id = r.device_id

-----------------------------------------------------------------------------
(* Claims about the reconciliation (SpecPunishment) *)

\* the driver calls of a set of calls that concern the device d
CallsOf(calls, d) == {c \in calls : c.device_id = d}

\* a tick that follows a tick, nothing else in between
SecondTick ==
    /\ response.op = "sync_port_with_schedule"
    /\ response'.op = "sync_port_with_schedule"

\* C12 as stated: the second of two ticks in succession issues no driver
\* call at all, for every device.
C12_SecondTickIssuesNothing ==
    [][ SecondTick => driver_calls' = {} ]_vars

\* C12: the second of two ticks in succession issues no driver call for
\* every device whose driver calls of the first tick all succeeded (a
\* device whose convergence failed in the first tick is attempted again).
C12_SecondTickIssuesNothingAfterSuccess ==
    [][ SecondTick =>
          \A d \in DeviceIds :
             (\A c \in CallsOf(driver_calls, d) : c.ok)
                => CallsOf(driver_calls', d) = {}
      ]_vars

\* a tick that issued nothing while a device is on, observed and actual:
\* an earlier run has converged that device (every port starts off)
C12_Witness ==
    /\ response.op = "sync_port_with_schedule"
    /\ driver_calls = {}
    /\ \E d \in DOMAIN port_states : port_states[d] /\ switch_port[d]
    /\ \E d \in DOMAIN port_states :
          /\ ~port_states[d]
          /\ ~should_port_be_enabled(d, now, schedules, temporary_access,
                                     punishment_mode)

\* the desired state of the device d by the store and the clock
Desired(d) ==
    should_port_be_enabled(d, now, schedules, temporary_access, punishment_mode)

\* the convergence of d failed in the run whose calls are given
FailedFor(calls, d) == \E c \in CallsOf(calls, d) : ~c.ok

\* a step of the periodic job
TickStep == response'.op = "sync_port_with_schedule"

\* C13: a device whose convergence fails in a run (login raises, or
\* control_port fails) keeps the observed state it had before the run;
\* control_port is never called after a failed login; and a tick attempts
\* every device whose desired state differs from the observed one, so the
\* tick after a failure attempts that device again.
C13_FailureLeavesObservedState ==
    [][ \A d \in DeviceIds :
          /\ FailedFor(driver_calls', d) =>
                /\ d \in DOMAIN port_states'
                /\ port_states'[d] = CurrentState(d)
          /\ (\E c \in CallsOf(driver_calls', d) : c.call = "login" /\ ~c.ok)
                => ~\E c \in CallsOf(driver_calls', d) : c.call = "control_port"
          /\ (TickStep /\ CurrentState(d) # Desired(d))
                => \E c \in CallsOf(driver_calls', d) : c.call = "login"
          /\ (SecondTick /\ FailedFor(driver_calls, d))
                => \E c \in CallsOf(driver_calls', d) : c.call = "login"
      ]_vars

\* a tick failed to switch off a device that is observed on and should be
\* off: it is still observed on, and its port is still on
C13_Witness ==
    /\ response.op = "sync_port_with_schedule"
    /\ \E d \in DOMAIN port_states :
          /\ FailedFor(driver_calls, d)
          /\ port_states[d] /\ switch_port[d]
          /\ ~Desired(d)

\* C14: in a tick over all devices every device whose desired state differs
\* from its observed state gets an attempt, and every device whose driver
\* calls succeed ends the tick with observed = desired, whatever happened
\* to the other devices; the tick completes and the job can run again in
\* every state, also when every device is unreachable.
C14_FailureIsolatedPerDevice ==
    /\ [](started => ENABLED SyncTick)
    /\ [][ TickStep =>
             \A d \in DeviceIds :
                /\ CurrentState(d) # Desired(d)
                      => \E c \in CallsOf(driver_calls', d) : c.call = "login"
                /\ ~FailedFor(driver_calls', d)
                      => /\ d \in DOMAIN port_states'
                         /\ port_states'[d] = Desired(d)'
                         /\ port_states'[d] = Desired(d)
         ]_vars

\* one tick in which the first device could not be reached and the second
\* one, processed after it, was converged
C14_Witness ==
    /\ response.op = "sync_port_with_schedule"
    /\ FailedFor(driver_calls, 1)
    /\ port_states[1] # Desired(1)
    /\ \E c \in CallsOf(driver_calls, 2) : c.call = "control_port" /\ c.ok
    /\ port_states[2] = Desired(2)

-----------------------------------------------------------------------------
(* Claims about convergence (SpecConverge) *)

\* every driver call of the last run succeeded
DriverSucceeds == \A c \in driver_calls : c.ok

\* the port of every device, and what the program believes of it, is as the
\* store and the clock want it
Converged ==
    \A d \in DeviceIds :
       /\ switch_port[d] = Desired(d)
       /\ CurrentState(d) = Desired(d)

\* C15: if from some point on the driver always succeeds (the desired state
\* stops changing once the clock of the model stops), then eventually the
\* port and the observed state of every device equal the desired state, and
\* stay so.
C15_EventuallyConverged ==
    (<>[]DriverSucceeds) => <>[]Converged

-----------------------------------------------------------------------------
(* Claims about the requests that change an override (SpecMutations) *)

MutationOps ==
    {"grant_temporary_access", "revoke_temporary_access",
     "activate_punishment_mode", "revoke_punishment_mode"}

\* the desired state of the device d by the store after the step
DesiredAfter(d) ==
    should_port_be_enabled(d, now', schedules', temporary_access', punishment_mode')

\* C16: a successful grant, revocation or activation reconciles its device
\* before it returns: when the observed state differs from the desired
\* state by the store that holds the mutation, the driver is called in the
\* same request, and unless the driver fails the observed state on return
\* is that desired state.
C16_MutationReconcilesAtOnce ==
    [][ (response'.op \in MutationOps /\ response'.code = 200) =>
          LET d == response'.device_id
          IN /\ CurrentState(d) # DesiredAfter(d)
                   => \E c \in CallsOf(driver_calls', d) : c.call = "login"
             /\ ~FailedFor(driver_calls', d)
                   => /\ d \in DOMAIN port_states'
                      /\ port_states'[d] = DesiredAfter(d)
      ]_vars

\* punishment mode activated inside the open window of a device that was
\* on: the request has switched the port off
C16_Witness ==
    /\ response.op = "activate_punishment_mode" /\ response.code = 200
    /\ \E s \in schedules : s.device_id = response.device_id /\ Open(s, now)
    /\ \E c \in CallsOf(driver_calls, response.device_id) :
          c.call = "control_port" /\ c.ok /\ ~c.enable
    /\ ~port_states[response.device_id]
    /\ ~switch_port[response.device_id]

-----------------------------------------------------------------------------
(* Claims about the startup (SpecConverge) *)

StartupStep == ~started /\ started'

\* C17 as stated: the startup sync issues a login and a control_port
\* carrying the desired state to every registered device; after it every
\* device has a port_states entry, equal to the desired state when the
\* command succeeded.
C17_StartupCommandsEveryDevice ==
    [][ StartupStep =>
          \A dev \in devices :
             LET d == dev.id
             IN /\ \E c \in CallsOf(driver_calls', d) : c.call = "login"
                /\ \E c \in CallsOf(driver_calls', d) :
                      c.call = "control_port" /\ c.enable = Desired(d)
                /\ d \in DOMAIN port_states'
                /\ (\E c \in CallsOf(driver_calls', d) : c.call = "control_port" /\ c.ok)
                      => port_states'[d] = Desired(d)
      ]_vars

\* C17: the startup sync issues a login to every registered device and,
\* to every device whose login succeeded, a control_port carrying the
\* desired state, whatever state is known of the device; after it every
\* device has a port_states entry, equal to the desired state when the
\* command succeeded and false when the login or the command failed.
C17_StartupAttemptsEveryDevice ==
    [][ StartupStep =>
          \A dev \in devices :
             LET d == dev.id
                 calls == CallsOf(driver_calls', d)
             IN /\ \E c \in calls : c.call = "login"
                /\ (\E c \in calls : c.call = "login" /\ c.ok)
                      => \E c \in calls :
                            c.call = "control_port" /\ c.enable = Desired(d)
                /\ \A c \in calls : c.call = "control_port" => c.enable = Desired(d)
                /\ d \in DOMAIN port_states'
                /\ port_states'[d] =
                      IF \E c \in calls : c.call = "control_port" /\ c.ok
                      THEN Desired(d) ELSE FALSE
      ]_vars

\* the startup has switched off a device whose desired state is off, the
\* state a first reference would assume, and could not log in to the other
\* device, which should be on and is recorded off
C17_Witness ==
    /\ response.op = "startup"
    /\ \E d \in DeviceIds :
          /\ ~Desired(d)
          /\ \E c \in CallsOf(driver_calls, d) :
                c.call = "control_port" /\ c.ok /\ ~c.enable
          /\ ~port_states[d]
    /\ \E d \in DeviceIds :
          /\ Desired(d)
          /\ \E c \in CallsOf(driver_calls, d) : c.call = "login" /\ ~c.ok
          /\ ~\E c \in CallsOf(driver_calls, d) : c.call = "control_port"
          /\ ~port_states[d]

-----------------------------------------------------------------------------
(* Claims about concurrent reconciliation runs (SpecRuns) *)

\* the runs that have read port_states of d and not yet written it
InFlight(d) ==
    {w \in Workers : threads[w].pc \in {"driver", "write"} /\ threads[w].device_id = d}

\* C18: at no time are two runs both between their read of a device's
\* observed state and their write of it.
C18_OneRunPerDevice ==
    \A d \in DeviceIds : Cardinality(InFlight(d)) <= 1

\* no run is in progress
AllFinished == \A w \in Workers : threads[w].pc = "idle"

\* the devices the runs since the last idle time have commanded, every
\* call with success
CommandedWithSuccess ==
    {d \in DeviceIds :
        /\ \E c \in CallsOf(driver_calls, d) : c.call = "control_port"
        /\ \A c \in driver_calls : c.ok}

\* C25: when the job's run and the runs of requests that went on at the
\* same time have all finished, and every driver call they made succeeded,
\* each device they commanded is observed in the state its port is in (the
\* state of the last successful control_port), and that state is the desired
\* state by the store as the runs left it.
C25_RunsAgreeWhenFinished ==
    AllFinished =>
       \A d \in CommandedWithSuccess :
          /\ port_states[d] = switch_port[d]
          /\ port_states[d] = Desired(d)

-----------------------------------------------------------------------------
(* Claims about the devices table (SpecDevices) *)

Defaults(devs) == {d \in devs : d.is_default}

\* a step of delete_device, and one that found the default device
DeleteStep == response'.op = "delete_device"

DeleteDefaultStep == DeleteStep /\ \E d \in response'.rows : d.is_default

\* C19: at most one device is the default one after any sequence of
\* add_device, update_device and delete_device; deleting the default device
\* leaves exactly one default device when another device remains, and none
\* when it was the last device.
C19_AtMostOneDefault ==
    /\ [](Cardinality(Defaults(devices)) <= 1)
    /\ [][ DeleteDefaultStep =>
             /\ ~\E d \in devices' : d.id = response'.device_id
             /\ {d.id : d \in devices'} = {d.id : d \in devices} \ {response'.device_id}
             /\ (devices' # {}) => Cardinality(Defaults(devices')) = 1
             /\ (devices' = {}) => Defaults(devices') = {}
         ]_vars

\* the default device deleted while two others were registered: one of
\* them is the default now
C19_Witness ==
    /\ response.op = "delete_device"
    /\ \E d \in response.rows : d.is_default
    /\ Cardinality(devices) = 2
    /\ Cardinality(Defaults(devices)) = 1

\* C20: after delete_device(d) no schedule, temporary_access or
\* punishment_mode row has device_id d.
C20_DeleteCascades ==
    [][ DeleteStep =>
          \A r \in schedules' \cup temporary_access' \cup punishment_mode' :
             r.device_id # response'.device_id
      ]_vars

-----------------------------------------------------------------------------
(* Claims about the schedules table (SpecPunishment) *)

\* the rows of a table that are equal to x on (day_of_week, start_time, end_time)
SameTriple(rows, x) ==
    {s \in rows : s.day_of_week = x[1] /\ s.start_time = x[2] /\ s.end_time = x[3]}

\* C21: after a successful POST /api/schedules the schedules listed for the
\* device hold exactly one row equal to the added (day_of_week, start_time,
\* end_time); no two rows ever share (device_id, day_of_week, start_time,
\* end_time); re-adding an identical schedule leaves the number of schedules
\* of the device unchanged.
C21_ScheduleUnique ==
    /\ [](\A s, q \in schedules :
            ( /\ s.device_id = q.device_id /\ s.day_of_week = q.day_of_week
              /\ s.start_time = q.start_time /\ s.end_time = q.end_time ) => s = q)
    /\ [][ \A req \in DeviceIds \cup {NoDevice}, x \in PunishmentSchedulePool :
             (AddSchedule(req, x[1], x[2], x[3]) /\ response'.code = 200) =>
                LET d == get_device_id_from_request(req)
                    before == get_schedules(schedules, d)
                    after == get_schedules(schedules', d)
                IN /\ Cardinality(SameTriple(after, x)) = 1
                   /\ \A r \in response'.rows : \E s \in SameTriple(after, x) : s.id = r.id
                   /\ SameTriple(before, x) # {} =>
                         Cardinality(after) = Cardinality(before)
                   /\ SameTriple(before, x) = {} =>
                         Cardinality(after) = Cardinality(before) + 1
         ]_vars

\* the Monday window added twice for one device: one row, the second one
C21_Witness ==
    /\ response.op = "add_schedule" /\ response.code = 200
    /\ response.rows = {[id |-> 2]}
    /\ sqlite_sequence.schedules = 2
    /\ \E s \in schedules : schedules = {s} /\ s.id = 2 /\ s.day_of_week = 0

\* the punishment row r is flagged active and now is its expires_at, and
\* the schedules of its device give, from the time of its activation, the
\* start it expires at (as they do when no schedule of the device has
\* changed since)
Expiring(r) ==
    /\ r.active
    /\ fromisoformat(r.expires_at) = now
    /\ get_next_schedule_start(r.device_id, fromisoformat(r.activated_at), schedules)
          = {now}

\* the punishment rows of the device of r, other than r, that are active
OtherActive(r) ==
    {q \in punishment_mode :
        /\ q # r /\ q.device_id = r.device_id
        /\ q.active /\ IsoGT(q.expires_at, isoformat(now))}

\* C26 as stated: at the expiry of a punishment row, with the schedules as
\* they were at its activation and no punishment row activated after it
\* active, the device should be enabled.
C26_EnabledAtExpiryUnlessNewer ==
    \A r \in punishment_mode :
       (Expiring(r) /\ ~\E q \in OtherActive(r) : q.id > r.id)
          => Desired(r.device_id)

\* C26: at the expiry of a punishment row, with the schedules as they were
\* at its activation and no other punishment row of the device active
\* (activated after it or before it), the device should be enabled: the
\* row expires at the start of a window, and every window of the requests
\* has start_time <= end_time.
C26_EnabledAtExpiry ==
    \A r \in punishment_mode :
       (Expiring(r) /\ OtherActive(r) = {}) => Desired(r.device_id)

\* the clock has reached the expiry of the one punishment row of a device,
\* activated before the window opened: the window is open, the device
\* should be enabled and is still observed off
C26_Witness ==
    \E r \in punishment_mode :
       /\ Expiring(r) /\ OtherActive(r) = {}
       /\ fromisoformat(r.activated_at) < now
       /\ \E s \in schedules : s.device_id = r.device_id /\ InWindow(s, now)
       /\ Desired(r.device_id)
       /\ r.device_id \in DOMAIN port_states /\ ~port_states[r.device_id]

\* the step commands no device and changes neither port_states nor an
\* override table
StoreOnly ==
    /\ driver_calls' = {}
    /\ UNCHANGED <<port_states, switch_port, temporary_access, punishment_mode>>

\* a step that follows an AddSchedule or DeleteSchedule
AfterScheduleChange == response.op \in {"add_schedule", "delete_schedule"}

\* C24: AddSchedule and DeleteSchedule call no driver and leave port_states,
\* the ports, temporary_access and punishment_mode as they were; the job's
\* tick that follows sets the observed state of every device whose driver
\* calls succeed to the desired state by the changed schedules.
C24_ScheduleChangeIsStoreOnly ==
    [][ /\ \A req \in DeviceIds \cup {NoDevice}, x \in PunishmentSchedulePool :
             AddSchedule(req, x[1], x[2], x[3]) => StoreOnly
        /\ \A id \in 1..MaxSchedules : DeleteSchedule(id) => StoreOnly
        /\ (AfterScheduleChange /\ TickStep) =>
              \A dev \in devices :
                 ~FailedFor(driver_calls', dev.id) =>
                    /\ dev.id \in DOMAIN port_states'
                    /\ port_states'[dev.id] = DesiredAfter(dev.id)
      ]_vars

\* a schedule whose window is closed now has been added for a device that
\* is on and observed on: no driver call, the device is still on and
\* observed on although its desired state is off
C24_Witness ==
    /\ response.op = "add_schedule" /\ response.code = 200
    /\ driver_calls = {}
    /\ response.device_id \in DOMAIN port_states
    /\ port_states[response.device_id] /\ switch_port[response.device_id]
    /\ ~Desired(response.device_id)

-----------------------------------------------------------------------------
(* Claims about the override tables (SpecStore) *)

\* the table after the step holds the rows of the table before it with
\* every row of the device d unflagged and every other row as it was
Revoked(before, after, d) ==
    /\ Cardinality(after) = Cardinality(before)
    /\ \A r \in before :
          IF r.device_id = d
          THEN [r EXCEPT !.active = FALSE] \in after
          ELSE r \in after

-----------------------------------------------------------------------------
(* Claims about port_states (SpecPort) *)

ReconcileOps == {"sync_port_with_schedule"} \cup MutationOps

PortOps == {"toggle_port", "set_port_state"}

\* the step is a successful control_port for d that commanded the state
\* port_states has for d after the step
Commanded(d) ==
    \E c \in CallsOf(driver_calls', d) :
       c.call = "control_port" /\ c.ok /\ c.enable = port_states'[d]

\* C23 as stated: once the startup has run, the observed state of a device
\* changes only in a reconciliation whose control_port succeeded, to the
\* desired state of that run; no other request changes it.
C23_OnlyReconciliationChangesObserved ==
    [][ started =>
          \A d \in DOMAIN port_states :
             port_states'[d] # port_states[d] =>
                /\ response'.op \in ReconcileOps
                /\ Commanded(d)
                /\ port_states'[d] = DesiredAfter(d)
      ]_vars

\* C23: the startup gives every registered device an entry; afterwards an
\* entry changes only in a step whose control_port for that device
\* succeeded, and to the state commanded: the desired state in a
\* reconciliation, the state asked for in a toggle or set request; an entry
\* made on first reference is False unless such a command set it.
C23_OnlySuccessfulCommandChangesObserved ==
    [][ /\ StartupStep => \A dev \in devices : dev.id \in DOMAIN port_states'
        /\ started =>
             \A d \in DOMAIN port_states' :
                /\ DOMAIN port_states \subseteq DOMAIN port_states'
                /\ (d \in DOMAIN port_states /\ port_states'[d] # port_states[d]) =>
                      /\ Commanded(d)
                      /\ \/ response'.op \in ReconcileOps /\ port_states'[d] = DesiredAfter(d)
                         \/ response'.op \in PortOps /\ response'.device_id = d
                /\ (d \notin DOMAIN port_states /\ port_states'[d]) => Commanded(d)
      ]_vars

\* a set request has switched on a device whose desired state is off: the
\* port is on and observed on
C23_Witness ==
    /\ response.op = "set_port_state" /\ response.code = 200
    /\ response.device_id \in DOMAIN port_states
    /\ port_states[response.device_id] /\ switch_port[response.device_id]
    /\ ~Desired(response.device_id)
    /\ \E c \in CallsOf(driver_calls, response.device_id) :
          c.call = "control_port" /\ c.ok /\ c.enable

\* the step commands no device other than d and leaves the observed state
\* of every other device as it was
ScopedTo(d) ==
    /\ \A c \in driver_calls' : c.device_id = d
    /\ \A e \in DOMAIN port_states' \ {d} :
          e \in DOMAIN port_states /\ port_states'[e] = port_states[e]

\* C27: the reconciliation that DELETE /api/temporary-access runs commands
\* only the device the request resolves to and changes the observed state
\* of no other device, for every request: one that names a device, one that
\* names none while a default device exists, and one that names none while
\* no default device exists.
C27_MutationRunIsScoped ==
    [][ \A req \in PortRequests :
          RevokeTemporaryAccess(req) => ScopedTo(get_device_id_from_request(req))
      ]_vars

-----------------------------------------------------------------------------
(* Claims about the cleanup and the grants (SpecStore) *)

\* the row has expired at now: expires_at <= now
Expired(r) == fromisoformat(r.expires_at) <= now

\* the table after the step holds the rows of the table before it, the
\* active expired ones unflagged and every other row as it was
Cleaned(before, after) ==
    /\ Cardinality(after) = Cardinality(before)
    /\ \A r \in before :
          IF r.active /\ Expired(r)
          THEN [r EXCEPT !.active = FALSE] \in after
          ELSE r \in after

\* C28: the cleanup unflags exactly the rows that are active and have
\* expires_at <= now, changes no other row and no expires_at, and the
\* resolver and the two active-override queries give, for every device,
\* the same answer on the tables before it and after it at that now.
C28_CleanupInvisible ==
    [][ CleanupExpired =>
          /\ Cleaned(temporary_access, temporary_access')
          /\ Cleaned(punishment_mode, punishment_mode')
          /\ \A d \in DeviceIds :
                /\ get_active_temporary_access(temporary_access', d, now)
                     = get_active_temporary_access(temporary_access, d, now)
                /\ get_active_punishment_mode(punishment_mode', d, now)
                     = get_active_punishment_mode(punishment_mode, d, now)
                /\ DesiredAfter(d) = Desired(d)
      ]_vars

\* after a cleanup a device has an expired grant that is unflagged and a
\* grant of the initial table that is active and not expired (no revocation
\* has unflagged the first one)
C28_Witness ==
    /\ response.op = "cleanup_expired"
    /\ \E r, q \in temporary_access :
          /\ r.device_id = q.device_id
          /\ ~r.active /\ Expired(r)
          /\ q.active /\ ~Expired(q)
          /\ q.granted_at # isoformat(now)
          /\ get_active_temporary_access(temporary_access, q.device_id, now) = {q}

\* C30: a grant of 5 minutes for a device that has no row that is active
\* and unexpired (no row at all, rows that have expired with their flag
\* still set, rows that were revoked or cleaned up) inserts one row with a
\* new id, granted_at = now, expires_at = now + 5 minutes and active set,
\* returns that row with extended = false, and changes no row that was
\* there.
C30_GrantInsertsWhenNoneCurrent ==
    [][ \A d \in DeviceIds :
          (DbGrantTemporaryAccess(d, 5) /\ Current(temporary_access, d, now) = {}) =>
             /\ temporary_access \subseteq temporary_access'
             /\ \E new \in temporary_access' :
                   /\ temporary_access' = temporary_access \cup {new}
                   /\ \A r \in temporary_access : r.id # new.id
                   /\ new.device_id = d /\ new.active
                   /\ new.granted_at = isoformat(now)
                   /\ fromisoformat(new.expires_at) = now + 5 * TicksPerMin
                   /\ response'.rows = {[id |-> new.id, granted_at |-> new.granted_at,
                                         expires_at |-> new.expires_at]}
             /\ ~response'.extended
      ]_vars

\* a grant has been made for a device whose earlier grant had expired with
\* its flag still set: the earlier row is as it was, flag set and expired,
\* and the device has a second row that starts now
C30_Witness ==
    /\ response.op = "grant_temporary_access" /\ ~response.extended
    /\ \E old, new \in temporary_access :
          /\ old.device_id = response.device_id /\ new.device_id = response.device_id
          /\ old.active /\ Expired(old)
          /\ new.id > old.id
          /\ new.granted_at = isoformat(now)
          /\ fromisoformat(new.expires_at) = now + 5 * TicksPerMin
          /\ response.rows = {[id |-> new.id, granted_at |-> new.granted_at,
                               expires_at |-> new.expires_at]}

-----------------------------------------------------------------------------
(* Claims about concurrent grants (SpecThreads) *)

\* the thread w is between its read and its write of a grant that extends
\* the row it read, with expiry E, and the last grant to return has extended
\* that row from the same E: the two grants were in progress together
ReadBeforeLastWrite(w) ==
    /\ threads[w].pc = "write"
    /\ response.op = "grant_temporary_access" /\ response.extended
    /\ \E existing \in threads[w].existing, r \in response.rows :
          /\ r.id = existing.id
          /\ fromisoformat(r.expires_at)
               = fromisoformat(existing.expires_at) + response.minutes * TicksPerMin

\* C29: when two grants of d1 and d2 minutes for one device are in progress
\* together while a grant with expiry E is active, the row's expires_at
\* after the second of them has written is E + d1 + d2, and the expires_at
\* the second one returns is the one the store holds.
C29_ConcurrentGrantsAdd ==
    [][ \A w \in Workers :
          (ReadBeforeLastWrite(w) /\ GrantWrite(w)) =>
             \E existing \in threads[w].existing, row \in temporary_access' :
                /\ row.id = existing.id
                /\ fromisoformat(row.expires_at)
                     = fromisoformat(existing.expires_at)
                         + (response.minutes + threads[w].minutes) * TicksPerMin
                /\ \A r \in response'.rows : r.expires_at = row.expires_at
      ]_vars

====
